---- MODULE Spec2Model ----
(***************************************************************************)
(* Model of the backtesting engine (src/backtesting_engine.py) and of the  *)
(* strategy layer that feeds it (src/trading_strategies.py).               *)
(*                                                                         *)
(* Units.  Prices and timestamps are integers.  Money (capital, equity,    *)
(* profit_loss, fees) is kept in thousandths of a currency unit, so that   *)
(* the commission of 0.001 per unit traded is the integer 1 per unit and   *)
(* every amount the code computes is exact.  Python indices are 0-based:   *)
(* row k of a frame is rows[k + 1].  An Optional field is <<>> for None    *)
(* and <<v>> for the value v.                                              *)
(*                                                                         *)
(* The readings of the indicator library (RSI, MACD lines, moving          *)
(* averages, Bollinger bands) for the window that ends at a bar are inputs *)
(* of the program; they are carried by the bar itself.                     *)
(*                                                                         *)
(* The specifications share the state and the operators of the code.      *)
(* Spec runs run_backtest bar by bar on short frames.  SpecGen runs whole  *)
(* calls of run_backtest on frames long enough for the classifier (more    *)
(* than LongestHorizon rows), one call per step.  SpecBatch runs           *)
(* run_comprehensive_backtest and compare_strategies, SpecPar two          *)
(* run_backtest calls in two threads, SpecComposite the decision of        *)
(* CompositeStrategy on arbitrary members.  Ratios are exact fractions     *)
(* [num, den]; the code computes them in binary floating point.            *)
(***************************************************************************)
EXTENDS Integers, Sequences, FiniteSets, TLC

VARIABLES
    pc,               \* where the caller of run_backtest stands
    args,             \* the arguments of the current run_backtest call
    data,             \* the frame run_backtest works on, after the date filter
    strategy_name,    \* the strategy id of the current call
    i,                \* loop index of run_backtest (0-based)
    trades,           \* the ledger: list of Trade
    capital,          \* cash, in thousandths
    position,         \* 0 = no position, 1 = long, -1 = short
    entry_price,
    entry_date,
    equity_curve,     \* list of equity values, in thousandths
    signals_correct,
    total_signals,
    result,           \* the BacktestResult returned, <<>> before any return
    error,            \* the exception that left run_backtest, "" if none
    is_trained,       \* MLRandomForestStrategy.is_trained of the engine
    model,            \* what MLRandomForestStrategy.model was fitted on
    predictors,       \* MLRandomForestStrategy.predictors
    forest,           \* the classifier's answers so far: (fit, features) -> p
    log,              \* per simulated bar of the current run: signal and locals
    pre,              \* the classifier state when the current call was made
    closes,           \* number of _close_position calls per ledger index
    ref,              \* a completed call kept for comparison, <<>> if none
    par,              \* the two concurrent run_backtest calls of SpecPar
    fn                \* the last call of another entry point: inputs and output

vars == <<pc, args, data, strategy_name, i, trades, capital, position,
          entry_price, entry_date, equity_curve, signals_correct,
          total_signals, result, error, is_trained, model, predictors,
          forest, log, pre, closes, ref, par, fn>>

auxVars == <<par, fn>>

runVars == <<data, strategy_name, i, trades, capital, position, entry_price,
             entry_date, equity_curve, signals_correct, total_signals, log,
             closes>>

mlVars == <<is_trained, model, predictors, forest>>

----------------------------------------------------------------------------
(* Program constants *)

InitialCapital == 10000

CommissionPerMille == 1

CapitalFractionPct == 95

WarmUpBars == 50

MinTrainRows == 100

LongestHorizon == 1000

RsiOversold == 30

RsiOverbought == 70

VolumePeriod == 20

(* Bounds of the model *)

MaxSimBars == 3

----------------------------------------------------------------------------
(* Small helpers *)

None == <<>>

Some(v) == <<v>>

Trunc(a, b) == IF a >= 0 THEN a \div b ELSE -((-a) \div b)

Last(s) == s[Len(s)]

RECURSIVE SumSeq(_)
SumSeq(s) == IF s = <<>> THEN 0 ELSE s[1] + SumSeq(Tail(s))

RECURSIVE SumSet(_, _)
SumSet(S, f) ==
    IF S = {} THEN 0
    ELSE LET x == CHOOSE y \in S : TRUE IN f[x] + SumSet(S \ {x}, f)

----------------------------------------------------------------------------
(* Frames.  A frame is [has_volume, rows]; a row is one price bar with the *)
(* indicator readings of the window that ends at it.                       *)

Row(d, k) == d.rows[k + 1]

FrameLen(d) == Len(d.rows)

\* data.iloc[:k+1]
Window(d, k) == [has_volume |-> d.has_volume, rows |-> SubSeq(d.rows, 1, k + 1)]

\* Variant: the start date is not applied
FilterDates_NoStart(d, start_date, end_date) ==
    LET ToEnd(b) == b.ts <= end_date
    IN  [has_volume |-> d.has_volume,
         rows |-> IF end_date # 0 THEN SelectSeq(d.rows, ToEnd) ELSE d.rows]

\* data[data.index >= start_date], data[data.index <= end_date]; a date of 0
\* stands for None (the filter is skipped)
FilterDates(d, start_date, end_date) ==
    LET FromStart(b) == b.ts >= start_date
        ToEnd(b) == b.ts <= end_date
        d1 == IF start_date # 0 THEN SelectSeq(d.rows, FromStart) ELSE d.rows
        d2 == IF end_date # 0 THEN SelectSeq(d1, ToEnd) ELSE d1
    IN  [has_volume |-> d.has_volume, rows |-> d2]

\* Sum of column values over rows lo..hi (0-based, inclusive), by level
ColumnSum(rows, lo, hi, col) ==
    LET levels == {rows[k + 1][col] : k \in lo..hi}
        count == [v \in levels |->
                      v * Cardinality({k \in lo..hi : rows[k + 1][col] = v})]
    IN  SumSet(levels, count)

----------------------------------------------------------------------------
(* Strategies: generate_signal returns "BUY", "SELL" or "HOLD", or raises. *)
(* A raised exception is the value "KeyError".  Strengths are in units of  *)
(* 1/3000, so that x/30 (RSI) and p/1000 (classifier) are both integers.   *)

Signals == {"BUY", "SELL", "HOLD"}

KeyError == "KeyError"

StrengthHalf == 3000 \div 2

\* TradingStrategy.get_signal_strength
Default_get_signal_strength(w) == StrengthHalf

RSI_generate_signal(w) ==
    IF FrameLen(w) < 14 THEN "HOLD"
    ELSE LET current_rsi == Last(w.rows).rsi
         IN  IF current_rsi < RsiOversold THEN "BUY"
             ELSE IF current_rsi > RsiOverbought THEN "SELL"
             ELSE "HOLD"

RSI_get_signal_strength(w) ==
    IF FrameLen(w) < 14 THEN StrengthHalf
    ELSE LET current_rsi == Last(w.rows).rsi
         IN  IF current_rsi < RsiOversold
                 THEN ((RsiOversold - current_rsi) * 3000) \div RsiOversold
             ELSE IF current_rsi > RsiOverbought
                 THEN ((current_rsi - RsiOverbought) * 3000) \div (100 - RsiOverbought)
             ELSE StrengthHalf

MACD_generate_signal(w) ==
    IF FrameLen(w) < 26 + 1 THEN "HOLD"
    ELSE LET cur == w.rows[Len(w.rows)]
             prev == w.rows[Len(w.rows) - 1]
         IN  IF cur.macd > cur.macd_signal /\ prev.macd <= prev.macd_signal THEN "BUY"
             ELSE IF cur.macd < cur.macd_signal /\ prev.macd >= prev.macd_signal THEN "SELL"
             ELSE "HOLD"

BB_generate_signal(w) ==
    IF FrameLen(w) < 20 THEN "HOLD"
    ELSE LET cur == Last(w.rows)
         IN  IF cur.close < cur.lband THEN "BUY"
             ELSE IF cur.close > cur.hband THEN "SELL"
             ELSE "HOLD"

MA_generate_signal(w) ==
    IF FrameLen(w) < 30 + 1 THEN "HOLD"
    ELSE LET cur == w.rows[Len(w.rows)]
             prev == w.rows[Len(w.rows) - 1]
         IN  IF cur.short_ma > cur.long_ma /\ prev.short_ma <= prev.long_ma THEN "BUY"
             ELSE IF cur.short_ma < cur.long_ma /\ prev.short_ma >= prev.long_ma THEN "SELL"
             ELSE "HOLD"

\* volume_ratio > 1.5, with avg_volume the mean of the last 20 volumes:
\* current / (sum / 20) > 3/2  <=>  40 * current > 3 * sum  (ratio 1 if avg = 0)
Volume_generate_signal(w) ==
    IF FrameLen(w) < VolumePeriod THEN "HOLD"
    ELSE IF ~w.has_volume THEN KeyError
    ELSE LET n == FrameLen(w)
             sum == ColumnSum(w.rows, n - VolumePeriod, n - 1, "volume")
             current_volume == Last(w.rows).volume
             current_price == Last(w.rows).close
             prev_price == IF n > 1 THEN w.rows[n - 1].close ELSE current_price
             high == IF sum > 0 THEN 2 * VolumePeriod * current_volume > 3 * sum
                     ELSE FALSE
         IN  IF high /\ current_price > prev_price THEN "BUY"
             ELSE IF high /\ current_price < prev_price THEN "SELL"
             ELSE "HOLD"

----------------------------------------------------------------------------
(* MLRandomForestStrategy.  The fitted classifier is represented by what   *)
(* it was fitted on; its answers are an input of the program, fixed per    *)
(* (fit, feature row) by random_state = 1 and recorded in forest.          *)

Horizons == {2, 5, 60, 250, 1000}

PredictorList == <<"Close", "Volume", "Open", "High", "Low",
                   "Close_Ratio_2", "Trend_2", "Close_Ratio_5", "Trend_5",
                   "Close_Ratio_60", "Trend_60", "Close_Ratio_250", "Trend_250",
                   "Close_Ratio_1000", "Trend_1000", "RSI">>

\* df['Target'] of row k (0-based): 1 if the next close is higher; the last
\* row has no Tomorrow and gets 0
Target(rows, k) ==
    IF k + 1 < Len(rows) /\ rows[k + 2].close > rows[k + 1].close THEN 1 ELSE 0

\* The feature row of bar r (0-based): Close, Volume, the rolling close sums
\* (Close_Ratio_h = Close / (sum / h)), the trend sums and the RSI reading
Features(rows, r) ==
    [close |-> rows[r + 1].close,
         volume |-> rows[r + 1].volume,
         sums |-> [h \in Horizons |-> ColumnSum(rows, r - h + 1, r, "close")],
         trends |-> [h \in Horizons |->
                        Cardinality({k \in (r - h)..(r - 1) : Target(rows, k) = 1})],
         rsi |-> rows[r + 1].rsi]

\* len(prepare_features(data)): the rows left by dropna are LongestHorizon ..
\* len - 2 (the longest trend needs 1000 shifted targets, the last row has no
\* Tomorrow)
PreparedCount(d) ==
    IF FrameLen(d) - 1 - LongestHorizon > 0 THEN FrameLen(d) - 1 - LongestHorizon ELSE 0

\* What model.fit is given: the leading 80% of the prepared rows
TrainingSet(d) ==
    LET train_size == (PreparedCount(d) * 8) \div 10
    IN  [j \in 1..train_size |->
            <<Features(d.rows, LongestHorizon + j - 1),
              Target(d.rows, LongestHorizon + j - 1)>>]

Classes(m) == {m[j][2] : j \in 1..Len(m)}

\* Variant: the fit is attempted whatever the number of prepared rows
TrainModel_AnyRows(d, trained, mdl) ==
    IF ~d.has_volume THEN <<trained, mdl>>
    ELSE <<TRUE, TrainingSet(d)>>

\* train_model: the new (is_trained, model) pair
TrainModel(d, trained, mdl) ==
    IF PreparedCount(d) < MinTrainRows THEN <<trained, mdl>>
    ELSE IF ~d.has_volume THEN <<trained, mdl>>     \* fit raises, caught
    ELSE <<TRUE, TrainingSet(d)>>

\* The window makes generate_signal consult predict_proba for a class-1 column
ConsultsForest(w, trained, mdl) ==
    /\ trained
    /\ PreparedCount(w) >= 1
    /\ w.has_volume
    /\ Cardinality(Classes(mdl)) > 1

\* The feature row predict_proba is asked about: prepared_data.iloc[-1:]
LatestFeatures(w) == Features(w.rows, FrameLen(w) - 2)

\* p is predict_proba(...)[0][1], per mille
ML_generate_signal(w, trained, mdl, p) ==
    IF ~trained THEN "HOLD"
    ELSE IF PreparedCount(w) < 1 THEN "HOLD"
    ELSE IF ~w.has_volume THEN "HOLD"               \* KeyError, caught
    ELSE LET proba1 == IF Cardinality(Classes(mdl)) > 1 THEN p ELSE 500
             rsi == w.rows[FrameLen(w) - 1].rsi
             boosted == IF (proba1 * 3) \div 2 < 1000 THEN (proba1 * 3) \div 2 ELSE 1000
             buy_probability == IF rsi < 30 THEN boosted ELSE proba1
         IN  IF buy_probability >= 600 THEN "BUY"
             ELSE IF buy_probability <= 400 THEN "SELL"
             ELSE "HOLD"

ML_get_signal_strength(w, trained, mdl, p) ==
    IF ~trained THEN StrengthHalf
    ELSE IF PreparedCount(w) < 1 THEN StrengthHalf
    ELSE IF ~w.has_volume THEN StrengthHalf
    ELSE IF Cardinality(Classes(mdl)) > 1 THEN 3 * p ELSE StrengthHalf

----------------------------------------------------------------------------
(* CompositeStrategy and the registry of StrategyManager *)

Leaves == <<"rsi", "macd", "bb", "ma_cross", "ml_rf", "volume">>

\* weights [1.0, 1.2, 0.8, 1.0, 1.5, 0.7], in tenths
Weights == <<10, 12, 8, 10, 15, 7>>

Registry == {"rsi", "macd", "bb", "ma_cross", "ml_rf", "volume", "composite"}

LeafSignal(name, w, trained, mdl, p) ==
    CASE name = "rsi" -> RSI_generate_signal(w)
      [] name = "macd" -> MACD_generate_signal(w)
      [] name = "bb" -> BB_generate_signal(w)
      [] name = "ma_cross" -> MA_generate_signal(w)
      [] name = "ml_rf" -> ML_generate_signal(w, trained, mdl, p)
      [] name = "volume" -> Volume_generate_signal(w)

LeafStrength(name, w, trained, mdl, p) ==
    CASE name = "rsi" -> RSI_get_signal_strength(w)
      [] name = "ml_rf" -> ML_get_signal_strength(w, trained, mdl, p)
      [] OTHER -> Default_get_signal_strength(w)

\* Variant: a ratio of exactly 0.6 already decides
CompositeDecision_AtLeast(signals, strengths) ==
    LET idx == 1..Len(signals)
        Bucket(sig) == SumSet({j \in idx : signals[j] = sig}, strengths)
        total_weight == Bucket("BUY") + Bucket("SELL") + Bucket("HOLD")
    IN  IF total_weight = 0 THEN "HOLD"
        ELSE IF 10 * Bucket("BUY") >= 6 * total_weight THEN "BUY"
        ELSE IF 10 * Bucket("SELL") >= 6 * total_weight THEN "SELL"
        ELSE "HOLD"

\* The decision of CompositeStrategy.generate_signal on the polled signals
\* and weighted strengths
CompositeDecision(signals, strengths) ==
    LET idx == 1..Len(signals)
        Bucket(sig) == SumSet({j \in idx : signals[j] = sig}, strengths)
        buy_weight == Bucket("BUY")
        sell_weight == Bucket("SELL")
        hold_weight == Bucket("HOLD")
        total_weight == buy_weight + sell_weight + hold_weight
    IN  IF total_weight = 0 THEN "HOLD"
        ELSE IF 10 * buy_weight > 6 * total_weight THEN "BUY"
        ELSE IF 10 * sell_weight > 6 * total_weight THEN "SELL"
        ELSE "HOLD"

Composite_generate_signal(w, trained, mdl, p) ==
    LET signals == [j \in 1..Len(Leaves) |-> LeafSignal(Leaves[j], w, trained, mdl, p)]
        strengths == [j \in 1..Len(Leaves) |->
                         LeafStrength(Leaves[j], w, trained, mdl, p) * Weights[j]]
    IN  IF \E j \in 1..Len(Leaves) : signals[j] = KeyError THEN KeyError
        ELSE CompositeDecision(signals, strengths)

\* CompositeStrategy.__init__: the weights kept for n members (in tenths)
CompositeWeights(n, weights) ==
    IF weights = <<>> \/ Len(weights) # n THEN [j \in 1..n |-> 10] ELSE weights

\* CompositeStrategy.generate_signal on members that answer with the given
\* signals and strengths
CompositePoll(signals, strengths, weights) ==
    CompositeDecision(signals, [j \in 1..Len(signals) |-> strengths[j] * weights[j]])

\* strategy.generate_signal(current_data) for a registered strategy
GenerateSignal(name, w, trained, mdl, p) ==
    IF name = "composite" THEN Composite_generate_signal(w, trained, mdl, p)
    ELSE LeafSignal(name, w, trained, mdl, p)

----------------------------------------------------------------------------
(* Trades and results *)

\* Trade(...) as run_backtest constructs it
NewTrade(date, price, quantity, name) ==
    [entry_date |-> date, exit_date |-> None, entry_price |-> price,
     exit_price |-> None, quantity |-> quantity, trade_type |-> "BUY",
     strategy |-> name, profit_loss |-> None, is_open |-> TRUE]

\* BacktestingEngine._close_position
\* Variant: only the exit leg is charged commission
ClosePosition_ExitFeeOnly(trade, exit_price, exit_date) ==
    LET gross == (exit_price - trade.entry_price) * trade.quantity
        total_commission == exit_price * trade.quantity * CommissionPerMille
    IN  [trade EXCEPT !.exit_price = Some(exit_price),
                      !.exit_date = Some(exit_date),
                      !.is_open = FALSE,
                      !.profit_loss = Some(gross * 1000 - total_commission)]

\* Variant: the trade is closed with the timestamp of its entry
ClosePosition_EntryStamp(trade, exit_price, exit_date) ==
    LET gross == (exit_price - trade.entry_price) * trade.quantity
        total_commission ==
            (trade.entry_price + exit_price) * trade.quantity * CommissionPerMille
    IN  [trade EXCEPT !.exit_price = Some(exit_price),
                      !.exit_date = Some(trade.entry_date),
                      !.is_open = FALSE,
                      !.profit_loss = Some(gross * 1000 - total_commission)]

ClosePosition(trade, exit_price, exit_date) ==
    LET gross == IF trade.trade_type = "BUY"
                     THEN (exit_price - trade.entry_price) * trade.quantity
                     ELSE (trade.entry_price - exit_price) * trade.quantity
        total_commission ==
            (trade.entry_price + exit_price) * trade.quantity * CommissionPerMille
    IN  [trade EXCEPT !.exit_price = Some(exit_price),
                      !.exit_date = Some(exit_date),
                      !.is_open = FALSE,
                      !.profit_loss = Some(gross * 1000 - total_commission)]

Zero == [num |-> 0, den |-> 1]

\* BacktestingEngine._create_empty_result
EmptyResult(name) ==
    [strategy_name |-> name, total_trades |-> 0, winning_trades |-> 0,
     losing_trades |-> 0, win_rate |-> Zero, total_return |-> Zero,
     max_drawdown |-> Zero,
     avg_trade_duration |-> Zero, profit_factor |-> Zero, total_fees |-> 0,
     net_profit |-> 0, signals_accuracy |-> Zero, trades |-> <<>>,
     equity_curve |-> <<>>]

\* Variant: a division that is not guarded against a zero sum of losses
ProfitFactor_Unguarded(total_profit, total_loss) ==
    [num |-> total_profit, den |-> -total_loss]

\* abs(total_profit / total_loss) if total_loss != 0 else 0  (total_profit
\* >= 0 > total_loss when the division is made)
ProfitFactor(total_profit, total_loss) ==
    IF total_loss # 0 THEN [num |-> total_profit, den |-> -total_loss] ELSE Zero

\* Variant: every bar counts as an evaluated signal
SignalsAccuracy_PerBar(correct, total) == [num |-> correct, den |-> total + 1]

\* signals_correct / total_signals if total_signals > 0 else 0
SignalsAccuracy(correct, total) ==
    IF total > 0 THEN [num |-> correct, den |-> total] ELSE Zero

\* a <= b for fractions with positive denominators, by whole parts and
\* remainders (no product is formed, so no intermediate value grows)
RECURSIVE PosFracLeq(_, _)
PosFracLeq(a, b) ==
    LET qa == a.num \div a.den
        qb == b.num \div b.den
        ra == a.num - qa * a.den
        rb == b.num - qb * b.den
    IN  IF qa # qb THEN qa < qb
        ELSE IF ra = 0 THEN TRUE
        ELSE IF rb = 0 THEN FALSE
        ELSE PosFracLeq([num |-> b.den, den |-> rb], [num |-> a.den, den |-> ra])

Upright(a) == IF a.den < 0 THEN [num |-> -a.num, den |-> -a.den] ELSE a

\* a <= b for fractions with non-zero denominators
FracLeq(a, b) == PosFracLeq(Upright(a), Upright(b))

\* The least fraction of a non-empty set
LeastFrac(falls) == CHOOSE q \in falls : \A r \in falls : FracLeq(q, r)

LeastOf(S) == CHOOSE k \in S : \A j \in S : k <= j

GreatestOf(S) == CHOOSE v \in S : \A u \in S : v >= u

\* (equity - peak) / peak
Fall(equity, peak) == [num |-> equity - peak, den |-> peak]

\* For every value of the curve, the first index at which it occurs
FirstAt(curve, levels) ==
    [v \in levels |-> LeastOf({k \in 1..Len(curve) : curve[k] = v})]

\* equity_series.expanding().max() at t: the greatest value that occurs at or
\* before t
PeakAt(first, t) == GreatestOf({v \in DOMAIN first : first[v] <= t})

Falls(curve, first) ==
    {Fall(curve[t], PeakAt(first, t)) : t \in 1..Len(curve)}

\* Variant: the fall is measured from the first point of the curve
MaxDrawdown_FromStart(curve) ==
    LeastFrac({Fall(curve[t], curve[1]) : t \in 1..Len(curve)})

\* peak = equity_series.expanding().max(); ((equity_series - peak) / peak).min()
\* for a non-empty curve
MaxDrawdown(curve) ==
    LeastFrac(Falls(curve, FirstAt(curve, {curve[k] : k \in 1..Len(curve)})))

\* _calculate_metrics once there is a closed trade (sharpe_ratio, a square
\* root computed from equity_curve alone, is not part of the record)
ComputedMetrics(name, closed_trades, curve, correct, total) ==
    LET total_trades == Len(closed_trades)
        idx == 1..total_trades
        pl == [j \in idx |-> closed_trades[j].profit_loss[1]]
        winners == {j \in idx : pl[j] > 0}
        losers == {j \in idx : pl[j] < 0}
        total_profit == SumSet(winners, pl)
        total_loss == SumSet(losers, pl)
        net_profit == total_profit + total_loss
        days == [j \in idx |->
                    closed_trades[j].exit_date[1] - closed_trades[j].entry_date]
        fees == [j \in idx |->
                    (closed_trades[j].entry_price + closed_trades[j].exit_price[1])
                        * closed_trades[j].quantity * CommissionPerMille]
    IN  [strategy_name |-> name,
         total_trades |-> total_trades,
         winning_trades |-> Cardinality(winners),
         losing_trades |-> Cardinality(losers),
         win_rate |-> [num |-> Cardinality(winners), den |-> total_trades],
         total_return |-> [num |-> net_profit, den |-> InitialCapital * 1000],
         max_drawdown |-> MaxDrawdown(curve),
         avg_trade_duration |-> [num |-> SumSet(idx, days), den |-> total_trades],
         profit_factor |-> ProfitFactor(total_profit, total_loss),
         total_fees |-> SumSet(idx, fees),
         net_profit |-> net_profit,
         signals_accuracy |-> SignalsAccuracy(correct, total),
         trades |-> closed_trades,
         equity_curve |-> curve]

Settled(t) == ~t.is_open

\* Variant: a run without trades still reports its accuracy and its curve
CalculateMetrics_KeepsCounters(name, ledger, curve, correct, total) ==
    IF SelectSeq(ledger, Settled) = <<>>
    THEN [EmptyResult(name) EXCEPT !.signals_accuracy = SignalsAccuracy(correct, total),
                                   !.max_drawdown = [num |-> -1, den |-> 1],
                                   !.equity_curve = curve]
    ELSE ComputedMetrics(name, SelectSeq(ledger, Settled), curve, correct, total)

\* BacktestingEngine._calculate_metrics
CalculateMetrics(name, ledger, curve, correct, total) ==
    IF ledger = <<>> THEN EmptyResult(name)
    ELSE IF SelectSeq(ledger, Settled) = <<>> THEN EmptyResult(name)
    ELSE ComputedMetrics(name, SelectSeq(ledger, Settled), curve, correct, total)

----------------------------------------------------------------------------
(* The per-bar steps of run_backtest, as functions of the locals *)

\* Variant: a HOLD is not counted correct
TrackAccuracy_HoldMisses(signal, k, d, correct, total) ==
    IF k < FrameLen(d) - 1
    THEN LET current_price == Row(d, k).close
             next_price == Row(d, k + 1).close
             hit == \/ signal = "BUY" /\ next_price > current_price
                    \/ signal = "SELL" /\ next_price < current_price
         IN  <<IF hit THEN correct + 1 ELSE correct, total + 1>>
    ELSE <<correct, total>>

\* "Track signal accuracy": the new (signals_correct, total_signals)
TrackAccuracy(signal, k, d, correct, total) ==
    IF k < FrameLen(d) - 1
    THEN LET current_price == Row(d, k).close
             next_price == Row(d, k + 1).close
             hit == \/ signal = "BUY" /\ next_price > current_price
                    \/ signal = "SELL" /\ next_price < current_price
                    \/ signal = "HOLD"
         IN  <<IF hit THEN correct + 1 ELSE correct, total + 1>>
    ELSE <<correct, total>>

\* Variant: the whole cash is spent, not 95% of it
Quantity_AllCash(cash, price) == Trunc(cash * 100, 100 * 1000 * price)

\* int(capital * 0.95 / current_price)
Quantity(cash, price) == Trunc(cash * CapitalFractionPct, 100 * 1000 * price)

\* Variant: a SELL received while flat opens a short trade
ExecuteSignal_Shorting(signal, ledger, cash, pos, eprice, edate, price, date, name) ==
    LET keep == [trades |-> ledger, capital |-> cash, position |-> pos,
                 entry_price |-> eprice, entry_date |-> edate, closed |-> <<>>]
        quantity == Quantity(cash, price)
        opened(type, side) ==
            [trades |-> Append(ledger, [NewTrade(date, price, quantity, name)
                                            EXCEPT !.trade_type = type]),
             capital |-> cash - quantity * price * (1000 + CommissionPerMille),
             position |-> side,
             entry_price |-> price,
             entry_date |-> Some(date),
             closed |-> <<>>]
        trade == ClosePosition(Last(ledger), price, date)
        closing == [keep EXCEPT !.trades = [ledger EXCEPT ![Len(ledger)] = trade],
                                !.capital = cash + trade.profit_loss[1],
                                !.position = 0,
                                !.closed = <<Len(ledger)>>]
    IN  IF signal = "BUY" /\ pos = 0 /\ quantity > 0 THEN opened("BUY", 1)
        ELSE IF signal = "BUY" /\ pos = -1 THEN closing
        ELSE IF signal = "SELL" /\ pos = 0 /\ quantity > 0 THEN opened("SHORT", -1)
        ELSE IF signal = "SELL" /\ pos = 1 THEN closing
        ELSE keep

\* Variant: a BUY received while long opens a further trade
ExecuteSignal_Pyramiding(signal, ledger, cash, pos, eprice, edate, price, date, name) ==
    LET keep == [trades |-> ledger, capital |-> cash, position |-> pos,
                 entry_price |-> eprice, entry_date |-> edate, closed |-> <<>>]
        quantity == Quantity(cash, price)
        trade == ClosePosition(Last(ledger), price, date)
    IN  IF signal = "BUY" /\ quantity > 0
        THEN [trades |-> Append(ledger, NewTrade(date, price, quantity, name)),
              capital |-> cash - quantity * price * (1000 + CommissionPerMille),
              position |-> 1,
              entry_price |-> price,
              entry_date |-> Some(date),
              closed |-> <<>>]
        ELSE IF signal = "SELL" /\ pos = 1
        THEN [keep EXCEPT !.trades = [ledger EXCEPT ![Len(ledger)] = trade],
                          !.capital = cash + trade.profit_loss[1],
                          !.position = 0,
                          !.closed = <<Len(ledger)>>]
        ELSE keep

\* Variant: a SELL closes the open trade and leaves the position long
ExecuteSignal_StaysLong(signal, ledger, cash, pos, eprice, edate, price, date, name) ==
    LET keep == [trades |-> ledger, capital |-> cash, position |-> pos,
                 entry_price |-> eprice, entry_date |-> edate, closed |-> <<>>]
        quantity == Quantity(cash, price)
        trade == ClosePosition(Last(ledger), price, date)
    IN  IF signal = "BUY" /\ pos = 0 /\ quantity > 0
        THEN [trades |-> Append(ledger, NewTrade(date, price, quantity, name)),
              capital |-> cash - quantity * price * (1000 + CommissionPerMille),
              position |-> 1,
              entry_price |-> price,
              entry_date |-> Some(date),
              closed |-> <<>>]
        ELSE IF signal = "SELL" /\ pos = 1
        THEN [keep EXCEPT !.trades = [ledger EXCEPT ![Len(ledger)] = trade],
                          !.capital = cash + trade.profit_loss[1],
                          !.closed = <<Len(ledger)>>]
        ELSE keep

\* "Execute trades based on signals": the new ledger, cash, position and
\* entry, and the ledger indices _close_position was called on
ExecuteSignal(signal, ledger, cash, pos, eprice, edate, price, date, name) ==
    LET keep == [trades |-> ledger, capital |-> cash, position |-> pos,
                 entry_price |-> eprice, entry_date |-> edate, closed |-> <<>>]
    IN
    IF signal = "BUY" /\ pos <= 0 THEN
        LET covered == ClosePosition(Last(ledger), price, date)
            ledger1 == IF pos = -1
                           THEN [ledger EXCEPT ![Len(ledger)] = covered]
                           ELSE ledger
            cash1 == IF pos = -1 THEN cash + covered.profit_loss[1] ELSE cash
            closed1 == IF pos = -1 THEN <<Len(ledger)>> ELSE <<>>
            quantity == Quantity(cash1, price)
        IN  IF quantity > 0
            THEN [trades |-> Append(ledger1, NewTrade(date, price, quantity, name)),
                  capital |-> cash1 - quantity * price * (1000 + CommissionPerMille),
                  position |-> 1,
                  entry_price |-> price,
                  entry_date |-> Some(date),
                  closed |-> closed1]
            ELSE [keep EXCEPT !.trades = ledger1, !.capital = cash1,
                              !.closed = closed1]
    ELSE IF signal = "SELL" /\ pos >= 0 THEN
        IF pos = 1
        THEN LET trade == ClosePosition(Last(ledger), price, date)
             IN  [keep EXCEPT !.trades = [ledger EXCEPT ![Len(ledger)] = trade],
                              !.capital = cash + trade.profit_loss[1],
                              !.position = 0,
                              !.closed = <<Len(ledger)>>]
        ELSE keep
    ELSE keep

\* "Calculate current equity"
CurrentEquity(ledger, cash, pos, price) ==
    IF pos = 1 /\ ledger # <<>>
    THEN cash + (price - Last(ledger).entry_price) * Last(ledger).quantity * 1000
    ELSE cash

\* Variant: the last trade is closed at the end whether it is open or not
MustLiquidate_Always(ledger) == ledger # <<>>

\* "Close any remaining open positions": is the last trade closed at the end
MustLiquidate(ledger) == ledger # <<>> /\ Last(ledger).is_open

\* closes after _close_position was called on the ledger indices in closed
CountCloses(counts, size, closed) ==
    [j \in 1..size |->
        (IF j \in DOMAIN counts THEN counts[j] ELSE 0)
        + Cardinality({c \in DOMAIN closed : closed[c] = j})]

----------------------------------------------------------------------------
(* Inputs.  A frame is described by the number of leading quiet rows, the  *)
(* rows that follow, the order of the timestamps and the presence of the   *)
(* Volume column.                                                          *)

Kinds == {"quiet", "oversold", "overbought"}

TailCloses == {90, 110}

\* The bars after the quiet part: every one carries a signal of some strategy
TailBars == [kind : Kinds \ {"quiet"}, close : TailCloses]

\* The indicator readings of a bar of each kind
Readings ==
    [kind \in Kinds |->
        CASE kind = "quiet" ->
                [rsi |-> 50, macd |-> 0, macd_signal |-> 0, short_ma |-> 100,
                 long_ma |-> 100, lband |-> 0, hband |-> 1000, volume |-> 100]
          [] kind = "oversold" ->
                [rsi |-> 20, macd |-> 1, macd_signal |-> 0, short_ma |-> 101,
                 long_ma |-> 100, lband |-> 1000, hband |-> 2000, volume |-> 400]
          [] kind = "overbought" ->
                [rsi |-> 80, macd |-> -1, macd_signal |-> 0, short_ma |-> 99,
                 long_ma |-> 100, lband |-> 0, hband |-> 1, volume |-> 400]]

\* A row without its timestamp
Bars ==
    [kind \in Kinds, close \in TailCloses \cup {100} |->
        [ts |-> 0, close |-> close, volume |-> Readings[kind].volume,
         rsi |-> Readings[kind].rsi, macd |-> Readings[kind].macd,
         macd_signal |-> Readings[kind].macd_signal,
         short_ma |-> Readings[kind].short_ma, long_ma |-> Readings[kind].long_ma,
         lband |-> Readings[kind].lband, hband |-> Readings[kind].hband]]

MkRow(ts, close, kind) == [Bars[kind, close] EXCEPT !.ts = ts]

\* Timestamps 1..n in order; "swapped" exchanges the last two, "dup" repeats
\* the last but one
Stamp(order, k, n) ==
    IF order = "swapped" /\ k = n THEN n - 1
    ELSE IF order = "swapped" /\ k = n - 1 THEN n
    ELSE IF order = "dup" /\ k = n THEN n - 1
    ELSE k

FrameOf(desc, n) ==
    [has_volume |-> desc.has_volume,
     rows |-> [k \in 1..n |->
                 IF k > desc.lead
                 THEN MkRow(Stamp(desc.order, k, n), desc.tail[k - desc.lead].close,
                            desc.tail[k - desc.lead].kind)
                 ELSE MkRow(Stamp(desc.order, k, n), 100, "quiet")]]

Frame(desc) == FrameOf(desc, desc.lead + Len(desc.tail))

RECURSIVE Tails(_)
Tails(len) ==
    IF len = 0 THEN {<<>>}
    ELSE Tails(len - 1) \cup
         {Append(t, b) : t \in {u \in Tails(len - 1) : Len(u) = len - 1}, b \in TailBars}

Names == Registry \cup {"unknown"}

\* Short frames: the warm-up rows and up to MaxSimBars bars to simulate
ShortFrames ==
    {[lead |-> WarmUpBars, tail |-> t, order |-> o, has_volume |-> v] :
        t \in Tails(MaxSimBars),
        o \in {"sorted", "swapped", "dup"}, v \in BOOLEAN}
    \cup {[lead |-> WarmUpBars - 1, tail |-> <<>>, order |-> "sorted",
           has_volume |-> TRUE]}

IsRegular(desc) == desc.order = "sorted" /\ desc.has_volume

\* The calls of the engine specification: regular frames under every date
\* range, irregular ones without a range
EngineCalls ==
    {[frame |-> f, name |-> s, start_date |-> a, end_date |-> b] :
        f \in ShortFrames, s \in Names,
        a \in {0, 3}, b \in {0, WarmUpBars + 1}}

EngineInputs ==
    {c \in EngineCalls :
        \/ IsRegular(c.frame)
        \/ /\ c.start_date = 0 /\ c.end_date = 0
           /\ c.frame.order = "sorted" \/ c.frame.has_volume}

\* Long frames: LongestHorizon quiet rows, then a fall of the close to 90
\* that lasts to the end, every row of it oversold: two such rows (too few to
\* fit the classifier) or MinTrainRows + 1 (just enough)
LongFrames ==
    {[lead |-> LongestHorizon,
      tail |-> [k \in 1..n |-> [kind |-> "oversold", close |-> 90]],
      order |-> "sorted", has_volume |-> TRUE] : n \in {2, MinTrainRows + 1}}

\* The calls of the classifier specification
GenInputs ==
    {[frame |-> f, name |-> s, start_date |-> 0, end_date |-> 0] :
        f \in LongFrames, s \in {"ml_rf", "composite"}}
    \cup {[frame |-> f, name |-> "unknown", start_date |-> 0, end_date |-> 0] :
            f \in {g \in LongFrames : Len(g.tail) = 2}}
    \cup {[frame |-> f, name |-> "ml_rf", start_date |-> 0, end_date |-> 0] :
            f \in {g \in ShortFrames : g.lead < WarmUpBars}}

----------------------------------------------------------------------------
(* The state machine *)

NoForest == [k \in {} |-> 0]

EmptyFrame == [has_volume |-> TRUE, rows |-> <<>>]

ProbLevels == {200, 450, 800}

\* No concurrent call has been made
NoRuns == [p \in {"a", "b"} |-> [pc |-> "idle"]]

\* No other entry point has been called
NoCall == [op |-> "none"]

Init ==
    /\ pc = "idle"
    /\ args = None
    /\ data = EmptyFrame
    /\ strategy_name = ""
    /\ i = 0
    /\ trades = <<>>
    /\ capital = InitialCapital * 1000
    /\ position = 0
    /\ entry_price = 0
    /\ entry_date = None
    /\ equity_curve = <<>>
    /\ signals_correct = 0
    /\ total_signals = 0
    /\ result = None
    /\ error = ""
    /\ is_trained = FALSE
    /\ model = <<>>
    /\ predictors = <<>>
    /\ forest = NoForest
    /\ log = <<>>
    /\ pre = None
    /\ closes = <<>>
    /\ ref = None
    /\ par = NoRuns
    /\ fn = NoCall

\* The caller may call run_backtest: no call is in progress
CanCall == pc = "idle"

\* The locals of run_backtest as it initialises them ("Initialize tracking
\* variables"), on the filtered frame d
EnterCall(c, d) ==
    /\ args' = Some(c)
    /\ pre' = Some([is_trained |-> is_trained, model |-> model,
                    predictors |-> predictors])
    /\ data' = d
    /\ strategy_name' = c.name

EnterRun(c, d) ==
    /\ EnterCall(c, d)
    /\ error' = ""
    /\ i' = WarmUpBars
    /\ trades' = <<>>
    /\ capital' = InitialCapital * 1000
    /\ position' = 0
    /\ entry_price' = 0
    /\ entry_date' = None
    /\ equity_curve' = <<>>
    /\ signals_correct' = 0
    /\ total_signals' = 0
    /\ log' = <<>>
    /\ closes' = <<>>

Filtered(c) == FilterDates(Frame(c.frame), c.start_date, c.end_date)

\* run_backtest, "if len(data) < 50": the empty result is returned
ReturnInsufficient(c, d) ==
    /\ CanCall
    /\ FrameLen(d) < WarmUpBars
    /\ EnterRun(c, d)
    /\ result' = Some(EmptyResult(c.name))
    /\ pc' = "returned"
    /\ UNCHANGED <<mlVars, ref, auxVars>>

\* run_backtest, "if not strategy": the empty result is returned
ReturnNotFound(c, d) ==
    /\ CanCall
    /\ FrameLen(d) >= WarmUpBars
    /\ c.name \notin Registry
    /\ EnterRun(c, d)
    /\ result' = Some(EmptyResult(c.name))
    /\ pc' = "returned"
    /\ UNCHANGED <<mlVars, ref, auxVars>>

Fitted(fit) == is_trained' = fit[1] /\ model' = fit[2]

\* run_backtest up to the loop: the classifier is trained for 'ml_rf' and the
\* locals are initialised
StartLoop(c, d) ==
    /\ CanCall
    /\ FrameLen(d) >= WarmUpBars
    /\ c.name \in Registry
    /\ EnterRun(c, d)
    /\ IF c.name = "ml_rf"
       THEN /\ Fitted(TrainModel(d, is_trained, model))
            /\ predictors' = PredictorList
       ELSE UNCHANGED <<is_trained, model, predictors>>
    /\ result' = None
    /\ pc' = "loop"
    /\ UNCHANGED <<forest, ref, auxVars>>

\* The classifier's answer for the latest feature row of window w: the one
\* recorded in forest, or any level the first time the pair is asked
Answers(name, w, trained, mdl, memo) ==
    IF ~(name \in {"ml_rf", "composite"} /\ ConsultsForest(w, trained, mdl)) THEN {0}
    ELSE IF <<mdl, LatestFeatures(w)>> \in DOMAIN memo
         THEN {memo[<<mdl, LatestFeatures(w)>>]}
    ELSE ProbLevels

Remember(name, w, trained, mdl, memo, p) ==
    IF name \in {"ml_rf", "composite"} /\ ConsultsForest(w, trained, mdl)
    THEN IF <<mdl, LatestFeatures(w)>> \in DOMAIN memo THEN memo
         ELSE memo @@ (<<mdl, LatestFeatures(w)>> :> p)
    ELSE memo

\* The locals of the loop, and whether generate_signal has raised
Locals ==
    [i |-> i, trades |-> trades, capital |-> capital, position |-> position,
     entry_price |-> entry_price, entry_date |-> entry_date,
     equity_curve |-> equity_curve, signals_correct |-> signals_correct,
     total_signals |-> total_signals, log |-> log, closes |-> closes,
     raised |-> FALSE]

\* The rest of the iteration once the signal is known
StepTrade(st, signal, acc, ex, current_equity) ==
    [i |-> st.i + 1,
     trades |-> ex.trades,
     capital |-> ex.capital,
     position |-> ex.position,
     entry_price |-> ex.entry_price,
     entry_date |-> ex.entry_date,
     equity_curve |-> Append(st.equity_curve, current_equity),
     signals_correct |-> acc[1],
     total_signals |-> acc[2],
     log |-> Append(st.log, [signal |-> signal, position |-> ex.position,
                             capital |-> ex.capital, equity |-> current_equity]),
     closes |-> CountCloses(st.closes, Len(ex.trades), ex.closed),
     raised |-> FALSE]

StepExecute(st, signal, acc, ex, current_price) ==
    StepTrade(st, signal, acc, ex,
              CurrentEquity(ex.trades, ex.capital, ex.position, current_price))

StepSignal(st, d, name, signal, current_price, current_date) ==
    IF signal = KeyError
    THEN [st EXCEPT !.raised = TRUE]
    ELSE StepExecute(st, signal,
                     TrackAccuracy(signal, st.i, d, st.signals_correct,
                                   st.total_signals),
                     ExecuteSignal(signal, st.trades, st.capital, st.position,
                                   st.entry_price, st.entry_date, current_price,
                                   current_date, name),
                     current_price)

\* One iteration of "for i in range(50, len(data))" on window w, with p the
\* classifier's answer: the locals after it
BarStep(st, d, name, w, trained, mdl, p) ==
    StepSignal(st, d, name, GenerateSignal(name, w, trained, mdl, p),
               Last(w.rows).close, Last(w.rows).ts)

\* The locals of the loop become st; an exception of generate_signal leaves
\* run_backtest
BarAssign(st) ==
    IF st.raised
    THEN /\ pc' = "raised"
         /\ error' = KeyError
         /\ UNCHANGED <<runVars, result>>
    ELSE /\ i' = st.i
         /\ trades' = st.trades
         /\ capital' = st.capital
         /\ position' = st.position
         /\ entry_price' = st.entry_price
         /\ entry_date' = st.entry_date
         /\ equity_curve' = st.equity_curve
         /\ signals_correct' = st.signals_correct
         /\ total_signals' = st.total_signals
         /\ log' = st.log
         /\ closes' = st.closes
         /\ UNCHANGED <<pc, error, result, data, strategy_name>>

\* generate_signal -> prepare_features sets self.predictors
PredictorsAfter(name, trained, old) ==
    IF name \in {"ml_rf", "composite"} /\ trained THEN PredictorList ELSE old

BarOn(w, answers) ==
    \E p \in answers :
        /\ forest' = Remember(strategy_name, w, is_trained, model, forest, p)
        /\ predictors' = PredictorsAfter(strategy_name, is_trained, predictors)
        /\ BarAssign(BarStep(Locals, data, strategy_name, w, is_trained, model, p))

\* One iteration of "for i in range(50, len(data))"
Bar ==
    /\ pc = "loop"
    /\ i < FrameLen(data)
    /\ BarOn(Window(data, i),
             Answers(strategy_name, Window(data, i), is_trained, model, forest))
    /\ UNCHANGED <<args, pre, is_trained, model, ref, auxVars>>

\* Variant: a trade left open by the loop is not closed
Liquidated_Never(ledger, final_price, final_date) == ledger

\* The ledger after "Close any remaining open positions"
Liquidated(ledger, final_price, final_date) ==
    IF MustLiquidate(ledger)
    THEN [ledger EXCEPT ![Len(ledger)] =
             ClosePosition(Last(ledger), final_price, final_date)]
    ELSE ledger

\* Variant: the result carries the first point of the curve twice
FinishWith_FirstTwice(ledger, liquidated) ==
    /\ trades' = ledger
    /\ closes' = CountCloses(closes, Len(trades),
                             IF liquidated THEN <<Len(trades)>> ELSE <<>>)
    /\ result' = Some(CalculateMetrics(strategy_name, ledger,
                                       <<equity_curve[1]>> \o equity_curve,
                                       signals_correct, total_signals))

FinishWith(ledger, liquidated) ==
    /\ trades' = ledger
    /\ closes' = CountCloses(closes, Len(trades),
                             IF liquidated THEN <<Len(trades)>> ELSE <<>>)
    /\ result' = Some(CalculateMetrics(strategy_name, ledger, equity_curve,
                                       signals_correct, total_signals))

\* After the loop: an open last trade is closed at the final bar, the metrics
\* are computed and the result is returned
Finish ==
    /\ pc = "loop"
    /\ i >= FrameLen(data)
    /\ FinishWith(Liquidated(trades, Last(data.rows).close, Last(data.rows).ts),
                  MustLiquidate(trades))
    /\ pc' = "returned"
    /\ UNCHANGED <<args, data, strategy_name, i, capital, position, entry_price,
                   entry_date, equity_curve, signals_correct, total_signals,
                   error, mlVars, log, pre, ref, auxVars>>

\* run_backtest has returned or raised: its locals are gone and the caller
\* goes on
CallerContinues ==
    /\ pc \in {"returned", "raised"}
    /\ pc' = "idle"
    /\ args' = None
    /\ data' = EmptyFrame
    /\ strategy_name' = ""
    /\ i' = 0
    /\ trades' = <<>>
    /\ capital' = InitialCapital * 1000
    /\ position' = 0
    /\ entry_price' = 0
    /\ entry_date' = None
    /\ equity_curve' = <<>>
    /\ signals_correct' = 0
    /\ total_signals' = 0
    /\ result' = None
    /\ error' = ""
    /\ log' = <<>>
    /\ pre' = None
    /\ closes' = <<>>
    /\ UNCHANGED <<mlVars, ref, auxVars>>

\* run_backtest(symbol, data, strategy_name, start_date, end_date), with d the
\* frame after the date filter
Call(c, d) == ReturnInsufficient(c, d) \/ ReturnNotFound(c, d) \/ StartLoop(c, d)

\* The engine specification: calls on short frames
CallEngine ==
    /\ CanCall
    /\ \E c \in EngineInputs : Call(c, Filtered(c))

Next == CallEngine \/ Bar \/ Finish \/ CallerContinues

Spec == Init /\ [][Next]_vars

----------------------------------------------------------------------------
(* run_backtest as one step: the loop is run to its end within the call *)

\* The feature rows the loop of a run on frame d asks the classifier about
ConsultKeys(d, name, trained, mdl) ==
    IF /\ name \in {"ml_rf", "composite"}
       /\ trained /\ d.has_volume /\ Cardinality(Classes(mdl)) > 1
    THEN {<<mdl, Features(d.rows, r)>> : r \in LongestHorizon..(FrameLen(d) - 2)}
    ELSE {}

\* forest with an answer for every key
Oracles(memo, keys) ==
    {memo @@ ext : ext \in [keys \ DOMAIN memo -> ProbLevels]}

Consulted(memo, name, w, trained, mdl) ==
    IF name \in {"ml_rf", "composite"} /\ ConsultsForest(w, trained, mdl)
    THEN memo[<<mdl, LatestFeatures(w)>>]
    ELSE 0

\* The locals after iterations lo..hi of the loop (the range is halved to
\* keep the evaluation shallow); nothing runs once generate_signal has raised
RECURSIVE RunBars(_, _, _, _, _, _, _, _)
RunBars(st, lo, hi, d, name, trained, mdl, memo) ==
    IF lo > hi \/ st.raised THEN st
    ELSE IF lo = hi
         THEN BarStep(st, d, name, Window(d, lo), trained, mdl,
                      Consulted(memo, name, Window(d, lo), trained, mdl))
    ELSE RunBars(RunBars(st, lo, (lo + hi) \div 2, d, name, trained, mdl, memo),
                 (lo + hi) \div 2 + 1, hi, d, name, trained, mdl, memo)

\* run_backtest returns, or raises, with the locals st of the finished loop
RunDone(c, d, st) ==
    /\ EnterCall(c, d)
    /\ i' = st.i
    /\ capital' = st.capital
    /\ position' = st.position
    /\ entry_price' = st.entry_price
    /\ entry_date' = st.entry_date
    /\ equity_curve' = st.equity_curve
    /\ signals_correct' = st.signals_correct
    /\ total_signals' = st.total_signals
    /\ log' = st.log
    /\ IF st.raised
       THEN /\ pc' = "raised"
            /\ error' = KeyError
            /\ result' = None
            /\ trades' = st.trades
            /\ closes' = st.closes
       ELSE /\ pc' = "returned"
            /\ error' = ""
            /\ trades' = Liquidated(st.trades, Last(d.rows).close, Last(d.rows).ts)
            /\ closes' = CountCloses(st.closes, Len(st.trades),
                                     IF MustLiquidate(st.trades)
                                     THEN <<Len(st.trades)>> ELSE <<>>)
            /\ result' = Some(CalculateMetrics(c.name, trades', st.equity_curve,
                                               st.signals_correct, st.total_signals))

RunFitted(c, d, fit) ==
    \E memo \in Oracles(forest, ConsultKeys(d, c.name, fit[1], fit[2])) :
        /\ forest' = memo
        /\ Fitted(fit)
        /\ predictors' = IF c.name = "ml_rf" THEN PredictorList
                         ELSE PredictorsAfter(c.name, fit[1], predictors)
        /\ RunDone(c, d, RunBars([Locals EXCEPT !.i = WarmUpBars], WarmUpBars,
                                 FrameLen(d) - 1, d, c.name, fit[1], fit[2], memo))

\* run_backtest on a frame of at least 50 rows with a registered strategy
RunLoop(c, d) ==
    /\ CanCall
    /\ FrameLen(d) >= WarmUpBars
    /\ c.name \in Registry
    /\ RunFitted(c, d, IF c.name = "ml_rf" THEN TrainModel(d, is_trained, model)
                       ELSE <<is_trained, model>>)
    /\ UNCHANGED <<ref, auxVars>>

RunBacktest(c, d) == ReturnInsufficient(c, d) \/ ReturnNotFound(c, d) \/ RunLoop(c, d)

\* The classifier specification: whole calls on long frames, where the caller
\* keeps one returned result (with the call, the classifier state the call
\* found and the signals of its bars) for later comparison
CallGen == CanCall /\ \E c \in GenInputs : RunBacktest(c, Filtered(c))

Mark ==
    /\ pc = "returned"
    /\ ref = None
    /\ ref' = Some([args |-> args[1],
                    is_trained |-> pre[1].is_trained,
                    model |-> pre[1].model,
                    result |-> result[1],
                    signals |-> [k \in DOMAIN log |-> log[k].signal]])
    /\ UNCHANGED <<pc, args, runVars, result, error, mlVars, pre, auxVars>>

NextGen == CallGen \/ CallerContinues \/ Mark

SpecGen == Init /\ [][NextGen]_vars

----------------------------------------------------------------------------
(* Vocabulary of the properties *)

----------------------------------------------------------------------------
(* run_comprehensive_backtest and compare_strategies *)

\* The locals of run_backtest when its loop starts
FreshLocals ==
    [i |-> WarmUpBars, trades |-> <<>>, capital |-> InitialCapital * 1000,
     position |-> 0, entry_price |-> 0, entry_date |-> None,
     equity_curve |-> <<>>, signals_correct |-> 0, total_signals |-> 0,
     log |-> <<>>, closes |-> <<>>, raised |-> FALSE]

\* What a run_backtest call leaves once its loop ended with the locals st:
\* whether it raised, the result it returned and the classifier it leaves
OutcomeOf(name, d, fit, st) ==
    [name |-> name,
     raised |-> st.raised,
     result |-> IF st.raised THEN None
                ELSE Some(CalculateMetrics(name,
                              Liquidated(st.trades, Last(d.rows).close,
                                         Last(d.rows).ts),
                              st.equity_curve, st.signals_correct,
                              st.total_signals)),
     signals |-> [k \in DOMAIN st.log |-> st.log[k].signal],
     is_trained |-> fit[1],
     model |-> fit[2]]

OutcomeFitted(name, d, fit, memo) ==
    OutcomeOf(name, d, fit,
              RunBars(FreshLocals, WarmUpBars, FrameLen(d) - 1, d, name,
                      fit[1], fit[2], memo))

\* run_backtest(symbol, d, name) as a function of the classifier it finds
BacktestOutcome(name, d, trained, mdl, memo) ==
    IF FrameLen(d) < WarmUpBars \/ name \notin Registry
    THEN [name |-> name, raised |-> FALSE, result |-> Some(EmptyResult(name)),
          signals |-> <<>>, is_trained |-> trained, model |-> mdl]
    ELSE OutcomeFitted(name, d,
                       IF name = "ml_rf" THEN TrainModel(d, trained, mdl)
                       ELSE <<trained, mdl>>, memo)

\* strategies.keys(): the registry in insertion order
RegistryOrder == Leaves \o <<"composite">>

\* The entry recorded for a run: its result, or the empty result if it raised
BatchEntry(o) == IF o.raised THEN EmptyResult(o.name) ELSE o.result[1]

\* Variant: the first run that raises ends the batch
RECURSIVE Batch_Aborting(_, _, _)
Batch_Aborting(k, d, runs) ==
    IF k > Len(RegistryOrder) THEN runs
    ELSE IF runs # <<>> /\ Last(runs).raised THEN runs
    ELSE Batch_Aborting(k + 1, d,
             Append(runs,
                    BacktestOutcome(RegistryOrder[k], d,
                        IF runs = <<>> THEN is_trained ELSE Last(runs).is_trained,
                        IF runs = <<>> THEN model ELSE Last(runs).model,
                        NoForest)))

\* The runs of the loop of run_comprehensive_backtest from the k-th strategy
\* on, each finding the classifier as the run before it left it
RECURSIVE Batch(_, _, _)
Batch(k, d, runs) ==
    IF k > Len(RegistryOrder) THEN runs
    ELSE Batch(k + 1, d,
             Append(runs,
                    BacktestOutcome(RegistryOrder[k], d,
                        IF runs = <<>> THEN is_trained ELSE Last(runs).is_trained,
                        IF runs = <<>> THEN model ELSE Last(runs).model,
                        NoForest)))

\* The dictionary run_comprehensive_backtest returns after the runs
BatchResults(runs) ==
    [name \in {runs[k].name : k \in DOMAIN runs} |->
        BatchEntry(runs[CHOOSE k \in DOMAIN runs : runs[k].name = name])]

\* Character codes of the texts that compare_strategies sorts
Minus == 45

Dot == 46

Percent == 37

DigitZero == 48

\* The decimal digits of a natural number
RECURSIVE Digits(_)
Digits(n) ==
    IF n < 10 THEN <<DigitZero + n>>
    ELSE Append(Digits(n \div 10), DigitZero + (n % 10))

\* round(): to the nearest whole, a half to the even neighbour
RoundHalfEven(a, b) ==
    LET q == a \div b
        r == a % b
    IN  IF 2 * r > b THEN q + 1
        ELSE IF 2 * r < b THEN q
        ELSE IF q % 2 = 0 THEN q ELSE q + 1

\* f"{x:.2%}" for x = num / den with den > 0: the hundredths of a percent
\* are rounded, the sign is kept even when they round to 0; computed by whole
\* part and remainders to stay within the integers
PercentText(x) ==
    LET mag == IF x.num < 0 THEN -x.num ELSE x.num
        rest == ((mag % x.den) * 100) % x.den
        hundredths == (mag \div x.den) * 10000
                          + (((mag % x.den) * 100) \div x.den) * 100
                          + RoundHalfEven(rest * 100, x.den)
    IN  (IF x.num < 0 THEN <<Minus>> ELSE <<>>)
            \o Digits(hundredths \div 100)
            \o <<Dot, DigitZero + ((hundredths % 100) \div 10),
                 DigitZero + (hundredths % 10), Percent>>

\* a < b for Python strings: by the first character that differs
TextLess(a, b) ==
    \E k \in 1..(Len(a) + 1) :
        /\ \A j \in 1..(k - 1) : j <= Len(b) /\ a[j] = b[j]
        /\ k <= Len(b)
        /\ k <= Len(a) => a[k] < b[k]

\* The place of row j after sort_values('Total Return', ascending=False):
\* rows with a greater text come first, equal texts keep their order
TextRank(rows, j) ==
    Cardinality({m \in DOMAIN rows : TextLess(rows[j].text, rows[m].text)})
        + Cardinality({m \in 1..(j - 1) : rows[m].text = rows[j].text})
        + 1

\* The comparison rows before sorting, one per entry in dictionary order
\* (value is the number that text was formatted from; the other formatted
\* columns play no part in the order)
ComparisonRow(name, res) ==
    [Strategy |-> name,
     text |-> PercentText(res.total_return),
     value |-> res.total_return,
     TotalTrades |-> res.total_trades]

RECURSIVE ComparisonData(_, _)
ComparisonData(results, k) ==
    IF k > Len(RegistryOrder) THEN <<>>
    ELSE IF RegistryOrder[k] \in DOMAIN results
         THEN <<ComparisonRow(RegistryOrder[k], results[RegistryOrder[k]])>>
                  \o ComparisonData(results, k + 1)
         ELSE ComparisonData(results, k + 1)

SortedRows(rows) ==
    [p \in DOMAIN rows |-> rows[CHOOSE j \in DOMAIN rows : TextRank(rows, j) = p]]

\* BacktestingEngine.compare_strategies
CompareStrategies(results) == SortedRows(ComparisonData(results, 1))

\* The frames of the batch specification: short frames in timestamp order
BatchFrames == {f \in ShortFrames : f.order = "sorted"}

ComprehensiveOn(f, runs) ==
    /\ fn' = [op |-> "comprehensive", frame |-> f, runs |-> runs,
              results |-> BatchResults(runs), rows |-> <<>>]
    /\ is_trained' = Last(runs).is_trained
    /\ model' = Last(runs).model
    /\ predictors' = IF FrameLen(Frame(f)) >= WarmUpBars THEN PredictorList
                     ELSE predictors
    /\ UNCHANGED <<pc, args, runVars, result, error, forest, log, pre, closes,
                   ref, par>>

\* run_comprehensive_backtest(symbol, data) on an engine whose classifier is
\* not fitted (no short frame fits it, so no run consults the forest)
Comprehensive ==
    /\ pc = "idle"
    /\ fn = NoCall
    /\ \E f \in BatchFrames : ComprehensiveOn(f, Batch(1, Frame(f), <<>>))

\* compare_strategies(results) on the dictionary the batch returned
Compare ==
    /\ pc = "idle"
    /\ fn.op = "comprehensive"
    /\ fn' = [fn EXCEPT !.op = "compare", !.rows = CompareStrategies(fn.results)]
    /\ UNCHANGED <<pc, args, runVars, result, error, mlVars, log, pre, closes,
                   ref, par>>

NextBatch == Comprehensive \/ Compare

SpecBatch == Init /\ [][NextBatch]_vars

----------------------------------------------------------------------------
(* Two run_backtest calls in two threads of one engine *)

Threads == {"a", "b"}

\* The long frame that fits the classifier; a long frame too short to fit it,
\* whose fall has a bounce (the close rises on a volume spike while RSI and
\* the bands still read as in the fall); a frame with two bars to simulate
\* and a frame that is too short
ParFrames ==
    {f \in LongFrames : Len(f.tail) > MinTrainRows} \cup
    {[lead |-> LongestHorizon,
      tail |-> <<[kind |-> "oversold", close |-> 90],
                 [kind |-> "oversold", close |-> 110],
                 [kind |-> "oversold", close |-> 90]>>,
      order |-> "sorted", has_volume |-> TRUE],
     [lead |-> WarmUpBars,
      tail |-> <<[kind |-> "oversold", close |-> 90],
                 [kind |-> "overbought", close |-> 110]>>,
      order |-> "sorted", has_volume |-> TRUE],
     [lead |-> WarmUpBars - 1, tail |-> <<>>, order |-> "sorted",
      has_volume |-> TRUE]}

\* The strategy ids each thread may ask for: the two threads never ask for
\* the same id
ParNames == [p \in Threads |-> IF p = "a" THEN {"ml_rf", "rsi"}
                               ELSE {"composite", "macd"}]

ParInputs(p) ==
    {[frame |-> f, name |-> s, start_date |-> 0, end_date |-> 0] :
        f \in ParFrames, s \in ParNames[p]}

\* The classifier as the engine holds it when a call begins
EngineAtStart == [is_trained |-> is_trained, model |-> model]

\* Thread p enters run_backtest and reaches its loop: for 'ml_rf' the shared
\* classifier is trained on the way
ParEnter(p, c, d, fit) ==
    /\ par' = [par EXCEPT ![p] = [pc |-> "loop", call |-> c,
                                  engine |-> EngineAtStart]]
    /\ is_trained' = fit[1]
    /\ model' = fit[2]
    /\ predictors' = IF c.name = "ml_rf" THEN PredictorList ELSE predictors
    /\ UNCHANGED <<pc, args, runVars, result, error, forest, log, pre, closes,
                   ref, fn>>

\* Thread p returns the empty result at once: fewer than 50 rows
ParInsufficient(p, c, d) ==
    /\ FrameLen(d) < WarmUpBars
    /\ par' = [par EXCEPT ![p] = [pc |-> "done", call |-> c,
                                  engine |-> EngineAtStart,
                                  raised |-> FALSE,
                                  result |-> Some(EmptyResult(c.name)),
                                  signals |-> <<>>]]
    /\ UNCHANGED <<pc, args, runVars, result, error, mlVars, log, pre, closes,
                   ref, fn>>

ParStart(p, c, d) ==
    /\ FrameLen(d) >= WarmUpBars
    /\ c.name \in Registry
    /\ ParEnter(p, c, d, IF c.name = "ml_rf" THEN TrainModel(d, is_trained, model)
                         ELSE <<is_trained, model>>)

ParCall(p) ==
    /\ pc = "idle"
    /\ par[p].pc = "idle"
    /\ \E c \in ParInputs(p) :
          ParInsufficient(p, c, Filtered(c)) \/ ParStart(p, c, Filtered(c))

ParLeave(p, o, memo) ==
    /\ par' = [par EXCEPT ![p] = [pc |-> "done", call |-> par[p].call,
                                  engine |-> par[p].engine,
                                  raised |-> o.raised, result |-> o.result,
                                  signals |-> o.signals]]
    /\ forest' = memo
    /\ predictors' = PredictorsAfter(par[p].call.name, is_trained, predictors)
    /\ UNCHANGED <<pc, args, runVars, result, error, is_trained, model, log,
                   pre, closes, ref, fn>>

\* Thread p runs its loop and returns; every bar consults the classifier as
\* the other thread has left it by now
ParRunOn(p, d) ==
    /\ FrameLen(d) >= WarmUpBars
    /\ \E memo \in Oracles(forest, ConsultKeys(d, par[p].call.name, is_trained, model)) :
          ParLeave(p, OutcomeFitted(par[p].call.name, d, <<is_trained, model>>,
                                    memo), memo)

ParRun(p) ==
    /\ par[p].pc = "loop"
    /\ ParRunOn(p, Filtered(par[p].call))

NextPar == \E p \in Threads : ParCall(p) \/ ParRun(p)

SpecPar == Init /\ [][NextPar]_vars

----------------------------------------------------------------------------
(* CompositeStrategy on its own: any members, strengths and weights *)


\* Largest number of member strategies of a composite
MaxMembers == 3

\* get_signal_strength answers 0.0, 0.5, 1.0 (in 1/3000)
StrengthLevels == {0, StrengthHalf, 2 * StrengthHalf}

\* weights 1.0 and 1.5 (in tenths)
WeightLevels == {10, 15}

WeightLists ==
    {<<>>} \cup UNION {[1..n -> WeightLevels] : n \in 1..MaxMembers}

\* CompositeStrategy(strategies, weights): the composite under study
NewComposite ==
    /\ pc = "idle"
    /\ fn = NoCall
    /\ \E n \in 1..MaxMembers, weights \in WeightLists :
          fn' = [op |-> "composite", members |-> n,
                 weights |-> CompositeWeights(n, weights),
                 signals |-> <<>>, strengths |-> <<>>, out |-> ""]
    /\ UNCHANGED <<pc, args, runVars, result, error, mlVars, log, pre, closes,
                   ref, par>>

\* composite.generate_signal(data), the members answering anything; the
\* function keeps no state, so one poll of each composite shows every outcome
Poll ==
    /\ pc = "idle"
    /\ fn.op = "composite"
    /\ fn.out = ""
    /\ \E signals \in [1..fn.members -> Signals],
          strengths \in [1..fn.members -> StrengthLevels] :
          fn' = [fn EXCEPT !.signals = signals, !.strengths = strengths,
                           !.out = CompositePoll(signals, strengths, fn.weights)]
    /\ UNCHANGED <<pc, args, runVars, result, error, mlVars, log, pre, closes,
                   ref, par>>

NextComposite == NewComposite \/ Poll

SpecComposite == Init /\ [][NextComposite]_vars

----------------------------------------------------------------------------

InRun == pc \in {"loop", "returned", "raised"}

\* The frame the current call was given, before the date filter
GivenFrame == Frame(args[1].frame)

\* Number of rows of the given frame inside the inclusive date range
RowsInRange ==
    Cardinality({k \in 1..FrameLen(GivenFrame) :
        /\ args[1].start_date # 0 => GivenFrame.rows[k].ts >= args[1].start_date
        /\ args[1].end_date # 0 => GivenFrame.rows[k].ts <= args[1].end_date})

\* Timestamps strictly increasing
Chronological(rows) ==
    \A k \in 1..(Len(rows) - 1) : rows[k].ts < rows[k + 1].ts

\* The simulated bar that log[k] and equity_curve[k] belong to
BarOf(k) == Row(data, WarmUpBars + k - 1)

IsClosed(t) == ~t.is_open

\* The signals of the run are one BUY, later one SELL, and HOLD elsewhere
OneRoundTrip(b, s) ==
    /\ b \in DOMAIN log /\ s \in DOMAIN log /\ b < s
    /\ log[b].signal = "BUY" /\ log[s].signal = "SELL"
    /\ \A k \in DOMAIN log \ {b, s} : log[k].signal = "HOLD"

----------------------------------------------------------------------------
(* C1: in any run, _close_position is applied at most once to each trade   *)
(* of the ledger, never to a closed one, and every closed trade has        *)
(* exit_date >= entry_date.                                                *)
C1_ClosedOnceAndOrdered ==
    \A j \in DOMAIN trades :
        /\ closes[j] <= 1
        /\ IsClosed(trades[j]) => trades[j].exit_date[1] >= trades[j].entry_date

(* C2: a trade has exit_date, exit_price and profit_loss set exactly when  *)
(* it is closed, and a closed trade is not changed by any later bar nor by *)
(* the end-of-series step.                                                 *)
C2_SetIffClosed ==
    \A j \in DOMAIN trades :
        /\ IsClosed(trades[j]) <=> trades[j].exit_date # None
        /\ IsClosed(trades[j]) <=> trades[j].exit_price # None
        /\ IsClosed(trades[j]) <=> trades[j].profit_loss # None

C2_ClosedIsFrozen ==
    pc = "loop" =>
        \A j \in DOMAIN trades :
            IsClosed(trades[j]) => j \in DOMAIN trades' /\ trades'[j] = trades[j]

C2_Theorem == []C2_SetIffClosed /\ [][C2_ClosedIsFrozen]_vars

\* A trade closed by a SELL bar has gone through a later bar and through the
\* end-of-series step
C2_Witness ==
    /\ pc = "returned"
    /\ trades # <<>>
    /\ IsClosed(trades[1])
    /\ trades[1].exit_date[1] < Last(data.rows).ts
    /\ Len(log) >= 3

(* C3: the position is always flat or long: it is never short, no trade of *)
(* direction short exists, so the close-short branch of BUY is never run.  *)
C3_LongOrFlat ==
    /\ position \in {0, 1}
    /\ \A k \in DOMAIN log : log[k].position \in {0, 1}
    /\ \A j \in DOMAIN trades : trades[j].trade_type = "BUY"

\* A SELL arrived while flat and a BUY followed it
C3_Witness ==
    /\ Len(log) >= 2
    /\ log[1].signal = "SELL"
    /\ log[2].signal = "BUY"
    /\ position = 1

(* C4: when the signals of a run are one BUY (quantity > 0), later one     *)
(* SELL, and HOLD elsewhere, the ledger is one closed long trade with      *)
(* profit_loss = (exit - entry) * quantity - (entry + exit) * quantity *   *)
(* commission, which is > 0 exactly when the gain exceeds the commission.  *)
C4_RoundTripPnl ==
    \A b, s \in DOMAIN log :
        (pc = "returned" /\ OneRoundTrip(b, s)
            /\ Quantity(InitialCapital * 1000, BarOf(b).close) > 0) =>
        LET entry == BarOf(b).close
            exit == BarOf(s).close
            quantity == (InitialCapital * CapitalFractionPct) \div (100 * entry)
            gain == (exit - entry) * quantity * 1000
            commission == (entry + exit) * quantity * CommissionPerMille
        IN  /\ Len(trades) = 1
            /\ result[1].trades = trades
            /\ result[1].total_trades = 1
            /\ IsClosed(trades[1])
            /\ trades[1].trade_type = "BUY"
            /\ trades[1].quantity = quantity
            /\ trades[1].entry_price = entry
            /\ trades[1].exit_price = Some(exit)
            /\ trades[1].profit_loss = Some(gain - commission)
            /\ trades[1].profit_loss[1] > 0 <=> gain > commission

\* A BUY, a HOLD and a SELL, in a run that has returned
C4_Witness ==
    /\ pc = "returned"
    /\ Len(log) = 3
    /\ OneRoundTrip(1, 3)
    /\ trades[1].profit_loss[1] < 0

(* C5 as stated: every run on at least warm_up_bars bars with a registered *)
(* strategy returns an equity curve of len(bars) - warm_up_bars points.    *)
C5_ReturnedCurveLength ==
    (pc = "returned" /\ FrameLen(data) >= WarmUpBars /\ strategy_name \in Registry) =>
        Len(result[1].equity_curve) = FrameLen(data) - WarmUpBars

(* C5 amended: in such a run the curve the loop builds gets one point per  *)
(* simulated bar, in bar order, and no point is removed or rewritten; it   *)
(* has len(bars) - warm_up_bars points when the loop ends; the returned    *)
(* result carries that curve when a trade was opened, and an empty curve   *)
(* when none was.                                                          *)
C5_CurveLength ==
    /\ pc = "loop" => Len(equity_curve) = i - WarmUpBars
    /\ Len(log) = Len(equity_curve)
    /\ \A k \in DOMAIN equity_curve : equity_curve[k] = log[k].equity
    /\ (pc = "returned" /\ FrameLen(data) >= WarmUpBars /\ strategy_name \in Registry) =>
          /\ Len(equity_curve) = FrameLen(data) - WarmUpBars
          /\ result[1].equity_curve = IF trades # <<>> THEN equity_curve ELSE <<>>

C5_AppendOnly ==
    pc = "loop" =>
        /\ Len(equity_curve') \in {Len(equity_curve), Len(equity_curve) + 1}
        /\ SubSeq(equity_curve', 1, Len(equity_curve)) = equity_curve
        /\ pc' = "loop" => Len(equity_curve') = Len(equity_curve) + 1

C5_Theorem == []C5_CurveLength /\ [][C5_AppendOnly]_vars

\* A run with a trade has returned a curve of three points
C5_Witness ==
    /\ pc = "returned"
    /\ trades # <<>>
    /\ FrameLen(data) = WarmUpBars + 3
    /\ Len(result[1].equity_curve) = 3

(* C6: a call whose frame has fewer than 50 rows inside the inclusive date *)
(* range, or whose strategy id is not registered, returns the empty result *)
(* (numeric fields 0, no trades, empty curve) and raises nothing.          *)
C6_EmptyResult ==
    (InRun /\ (RowsInRange < WarmUpBars \/ args[1].name \notin Registry)) =>
        /\ pc = "returned"
        /\ error = ""
        /\ result[1].strategy_name = args[1].name
        /\ result[1].total_trades = 0
        /\ result[1].winning_trades = 0
        /\ result[1].losing_trades = 0
        /\ result[1].win_rate.num = 0
        /\ result[1].total_return.num = 0
        /\ result[1].avg_trade_duration.num = 0
        /\ result[1].profit_factor.num = 0
        /\ result[1].total_fees = 0
        /\ result[1].net_profit = 0
        /\ result[1].signals_accuracy.num = 0
        /\ result[1].trades = <<>>
        /\ result[1].equity_curve = <<>>

\* The date filter is what leaves fewer than 50 rows
C6_Witness ==
    /\ pc = "returned"
    /\ FrameLen(GivenFrame) > WarmUpBars
    /\ RowsInRange < WarmUpBars
    /\ args[1].name \in Registry

(* C7: a frame whose timestamps are not strictly increasing is rejected    *)
(* with InvalidInput before the first bar is simulated: no trade and no    *)
(* equity point is produced from it.                                       *)
C7_InvalidInputRejected ==
    (InRun /\ ~Chronological(GivenFrame.rows)) =>
        /\ pc = "raised"
        /\ error = "InvalidInput"
        /\ trades = <<>>
        /\ equity_curve = <<>>

(* C8: InvalidInput is the only failure of a run_backtest call: no         *)
(* exception of the signal generator leaves run_backtest.                  *)
C8_OnlyInvalidInputIsFatal ==
    /\ pc = "raised" => error = "InvalidInput"
    /\ error \in {"", "InvalidInput"}

(* C9: two run_backtest calls with the same bars, strategy id and date     *)
(* range return the same result, whatever calls ran between them.          *)
C9_SameCallSameResult ==
    (pc = "returned" /\ ref # None /\ ref[1].args = args[1]) =>
        result[1] = ref[1].result

(* C10: the signal of bar i depends on bars 0..i only: two runs of one     *)
(* strategy that start from the same classifier state, on frames that      *)
(* agree up to bar i, get the same signal at bar i.                        *)
C10_NoLookahead ==
    (/\ pc = "returned" /\ ref # None
     /\ ref[1].args.name = strategy_name
     /\ ref[1].is_trained = pre[1].is_trained
     /\ ref[1].model = pre[1].model) =>
        \A k \in DOMAIN log \cap DOMAIN ref[1].signals :
            ref[1].signals[k] # log[k].signal =>
                \/ Filtered(ref[1].args).has_volume # data.has_volume
                \/ SubSeq(Filtered(ref[1].args).rows, 1, WarmUpBars + k)
                       # SubSeq(data.rows, 1, WarmUpBars + k)

\* The loop of the current call has run to its end and metrics were computed
LoopReturned ==
    /\ pc = "returned"
    /\ strategy_name \in Registry
    /\ FrameLen(data) >= WarmUpBars

\* Bars at which the run went from flat to long
Opened == {k \in DOMAIN log : log[k].position = 1 /\ (k = 1 \/ log[k - 1].position = 0)}

\* Two fractions with positive denominators denote the same number
SameFrac(a, b) == FracLeq(a, b) /\ FracLeq(b, a)

(* C11: run_backtest changes no state that outlives the call: after it     *)
(* returns or raises, the classifier's trained flag and fitted model are   *)
(* what they were when the call began.                                     *)
C11_NoSideEffect ==
    (pc \in {"returned", "raised"}) =>
        /\ is_trained = pre[1].is_trained
        /\ model = pre[1].model

(* C16: a run whose strategy never emits BUY opens no trade and returns    *)
(* the empty result: every numeric field 0, max_drawdown included, no      *)
(* trades and an empty equity curve.                                       *)
C16_NoBuyNoTrade ==
    (LoopReturned /\ \A k \in DOMAIN log : log[k].signal # "BUY") =>
        /\ trades = <<>>
        /\ result[1].strategy_name = strategy_name
        /\ result[1].total_trades = 0
        /\ result[1].winning_trades = 0
        /\ result[1].losing_trades = 0
        /\ result[1].win_rate.num = 0
        /\ result[1].total_return.num = 0
        /\ result[1].max_drawdown.num = 0
        /\ result[1].avg_trade_duration.num = 0
        /\ result[1].profit_factor.num = 0
        /\ result[1].total_fees = 0
        /\ result[1].net_profit = 0
        /\ result[1].signals_accuracy.num = 0
        /\ result[1].trades = <<>>
        /\ result[1].equity_curve = <<>>

\* A run of three bars that saw a SELL and no BUY has returned
C16_Witness ==
    /\ LoopReturned
    /\ Len(log) = 3
    /\ \E k \in DOMAIN log : log[k].signal = "SELL"
    /\ \A k \in DOMAIN log : log[k].signal # "BUY"

(* C17: a trade still open when the loop ends is closed at the close and   *)
(* timestamp of the final bar; every returned trade is closed and          *)
(* total_trades is the number of trades the run opened.                    *)
C17_OpenTradeLiquidated ==
    LoopReturned =>
        /\ \A j \in DOMAIN result[1].trades :
              /\ ~result[1].trades[j].is_open
              /\ result[1].trades[j].exit_price # None
              /\ result[1].trades[j].exit_date # None
              /\ result[1].trades[j].profit_loss # None
        /\ result[1].total_trades = Len(result[1].trades)
        /\ result[1].total_trades = Cardinality(Opened)
        /\ (log # <<>> /\ Last(log).position = 1) =>
              /\ result[1].trades # <<>>
              /\ Last(result[1].trades).exit_price = Some(Last(data.rows).close)
              /\ Last(result[1].trades).exit_date = Some(Last(data.rows).ts)
              /\ Last(result[1].trades).entry_date = BarOf(CHOOSE k \in Opened :
                                                        \A m \in Opened : m <= k).ts

\* A run that bought before its final bar and was still long at its end
C17_Witness ==
    /\ LoopReturned
    /\ Len(log) = 3
    /\ Last(log).position = 1
    /\ Len(result[1].trades) = 1
    /\ Last(result[1].trades).entry_date < Last(data.rows).ts
    /\ Last(result[1].trades).exit_date = Some(Last(data.rows).ts)

(* C18: profit_factor is |sum of profits / sum of losses| over the closed  *)
(* trades when the sum of losses is not 0, and 0 otherwise; it is never    *)
(* negative and never infinite.                                            *)
C18_ProfitFactor ==
    LoopReturned =>
        LET ts == result[1].trades
            pl == [j \in DOMAIN ts |-> ts[j].profit_loss[1]]
            profits == SumSet({j \in DOMAIN ts : pl[j] > 0}, pl)
            losses == SumSet({j \in DOMAIN ts : pl[j] < 0}, pl)
            pf == result[1].profit_factor
        IN  /\ pf.den > 0
            /\ pf.num >= 0
            /\ IF losses # 0
               THEN SameFrac(pf, [num |-> profits, den |-> -losses])
               ELSE pf.num = 0

\* A run with a winning and a losing trade has returned
C18_Witness ==
    /\ LoopReturned
    /\ result[1].winning_trades = 1
    /\ result[1].losing_trades = 1
    /\ result[1].profit_factor.num > result[1].profit_factor.den

\* The highest equity among the first t points of the current curve
RunningPeak(t) ==
    CHOOSE v \in {equity_curve[k] : k \in 1..t} :
        \A k \in 1..t : equity_curve[k] <= v

(* C19: max_drawdown of a computed result is the least value over the      *)
(* curve of (equity - running peak) / running peak; the running peak is    *)
(* positive and max_drawdown is at most 0.                                 *)
C19_MaxDrawdown ==
    (LoopReturned /\ result[1].total_trades > 0) =>
        LET md == result[1].max_drawdown
        IN  /\ md.den > 0
            /\ md.num <= 0
            /\ \A t \in DOMAIN equity_curve :
                  /\ RunningPeak(t) > 0
                  /\ FracLeq(md, [num |-> equity_curve[t] - RunningPeak(t),
                                  den |-> RunningPeak(t)])
            /\ \E t \in DOMAIN equity_curve :
                  SameFrac(md, [num |-> equity_curve[t] - RunningPeak(t),
                                den |-> RunningPeak(t)])

\* A run whose equity rose above its first point and then fell has returned
C19_Witness ==
    /\ LoopReturned
    /\ result[1].total_trades > 0
    /\ Len(equity_curve) = 3
    /\ equity_curve[2] > equity_curve[1]
    /\ equity_curve[3] < equity_curve[2]
    /\ result[1].max_drawdown.den = equity_curve[2]
    /\ result[1].max_drawdown.num < 0

\* Bars of the run, the final one excluded, whose signal counted as correct
Hits ==
    {k \in 1..(Len(log) - 1) :
        \/ log[k].signal = "BUY" /\ BarOf(k + 1).close > BarOf(k).close
        \/ log[k].signal = "SELL" /\ BarOf(k + 1).close < BarOf(k).close
        \/ log[k].signal = "HOLD"}

(* C20 as stated: signals_accuracy of every run is correct signals over    *)
(* evaluated signals, and 0 when no signal was evaluated.                  *)
C20_AccuracyIsRatio ==
    LoopReturned =>
        IF total_signals > 0
        THEN SameFrac(result[1].signals_accuracy,
                      [num |-> signals_correct, den |-> total_signals])
        ELSE result[1].signals_accuracy.num = 0

(* C20: every bar but the final one is evaluated (BUY correct when the     *)
(* next close is higher, SELL when it is lower, HOLD always); a run that   *)
(* closed at least one trade returns correct / evaluated, or 0 when none   *)
(* was evaluated; a run without trades returns 0; the value is in [0, 1].  *)
C20_Accuracy ==
    LoopReturned =>
        /\ log # <<>> => total_signals = Len(log) - 1
        /\ signals_correct = Cardinality(Hits)
        /\ result[1].signals_accuracy.den > 0
        /\ 0 <= result[1].signals_accuracy.num
        /\ result[1].signals_accuracy.num <= result[1].signals_accuracy.den
        /\ IF result[1].total_trades > 0 /\ total_signals > 0
           THEN SameFrac(result[1].signals_accuracy,
                         [num |-> signals_correct, den |-> total_signals])
           ELSE result[1].signals_accuracy.num = 0

\* A run with trades whose signals were partly correct has returned
C20_Witness ==
    /\ LoopReturned
    /\ result[1].total_trades > 0
    /\ total_signals = 2
    /\ signals_correct = 1
    /\ result[1].signals_accuracy = [num |-> 1, den |-> 2]

\* The summed weighted strength of the polled members that answered sig
Polled(sig) ==
    SumSet({j \in 1..fn.members : fn.signals[j] = sig},
           [j \in 1..fn.members |-> fn.strengths[j] * fn.weights[j]])

PolledTotal == Polled("BUY") + Polled("SELL") + Polled("HOLD")

(* C13: for all member signals, strengths in [0,1] and positive weights,   *)
(* the composite answers HOLD when the summed weighted strength is 0,      *)
(* else BUY when buy_weight / total_weight > 0.6, else SELL when           *)
(* sell_weight / total_weight > 0.6, else HOLD; a ratio of exactly 0.6     *)
(* gives HOLD.                                                             *)
C13_CompositeRule ==
    (fn.op = "composite" /\ fn.out # "") =>
        /\ PolledTotal = 0 => fn.out = "HOLD"
        /\ (PolledTotal # 0 /\ 10 * Polled("BUY") > 6 * PolledTotal) => fn.out = "BUY"
        /\ (/\ PolledTotal # 0
            /\ 10 * Polled("BUY") <= 6 * PolledTotal
            /\ 10 * Polled("SELL") > 6 * PolledTotal) => fn.out = "SELL"
        /\ (/\ 10 * Polled("BUY") <= 6 * PolledTotal
            /\ 10 * Polled("SELL") <= 6 * PolledTotal) => fn.out = "HOLD"

\* Three equally weighted members, two BUY and one HOLD at strength 1.0: BUY
C13_Witness ==
    /\ fn.op = "composite"
    /\ fn.members = 3
    /\ fn.weights = <<10, 10, 10>>
    /\ fn.signals = <<"BUY", "HOLD", "BUY">>
    /\ fn.strengths = <<2 * StrengthHalf, 2 * StrengthHalf, 2 * StrengthHalf>>
    /\ 3 * Polled("BUY") = 2 * PolledTotal
    /\ fn.out = "BUY"

(* C14: run_comprehensive_backtest returns one entry for every registered  *)
(* strategy id, the composite included; the entry of a run that raised is  *)
(* the empty result, and every other strategy is still run and recorded.   *)
C14_OneEntryPerStrategy ==
    (fn.op = "comprehensive") =>
        /\ DOMAIN fn.results = Registry
        /\ Len(fn.runs) = Cardinality(Registry)
        /\ \A k \in DOMAIN fn.runs :
              /\ fn.runs[k].name = RegistryOrder[k]
              /\ fn.runs[k].raised =>
                    fn.results[fn.runs[k].name] = EmptyResult(fn.runs[k].name)
              /\ ~fn.runs[k].raised =>
                    fn.results[fn.runs[k].name] = fn.runs[k].result[1]
        /\ \A name \in Registry :
              LET alone == BacktestOutcome(name, Frame(fn.frame), FALSE, <<>>, NoForest)
              IN  fn.results[name] = IF alone.raised THEN EmptyResult(name)
                                     ELSE alone.result[1]

\* A batch in which the volume run raised, after a run that traded
C14_Witness ==
    /\ fn.op = "comprehensive"
    /\ \E k \in DOMAIN fn.runs :
          /\ fn.runs[k].name = "volume"
          /\ fn.runs[k].raised
          /\ k < Len(fn.runs)
    /\ fn.results["volume"] = EmptyResult("volume")
    /\ fn.results["rsi"].total_trades > 0
    /\ "composite" \in DOMAIN fn.results

(* C15: compare_strategies returns one row per result, ordered by          *)
(* total_return descending: of two adjacent rows the first has the         *)
(* numerically greater or equal total_return.                              *)
C15_SortedByReturn ==
    (fn.op = "compare") =>
        /\ Len(fn.rows) = Cardinality(DOMAIN fn.results)
        /\ {fn.rows[p].Strategy : p \in DOMAIN fn.rows} = DOMAIN fn.results
        /\ \A p \in 1..(Len(fn.rows) - 1) :
              FracLeq(fn.results[fn.rows[p + 1].Strategy].total_return,
                      fn.results[fn.rows[p].Strategy].total_return)

\* What the call of thread p returns when no other call runs on the engine:
\* the engine is as that call found it
Alone(p) ==
    BacktestOutcome(par[p].call.name, Filtered(par[p].call),
                    par[p].engine.is_trained, par[p].engine.model, forest)

SameOutcome(p, alone) ==
    /\ par[p].raised = alone.raised
    /\ par[p].result = alone.result

(* C12: two run_backtest calls for different strategy ids that run         *)
(* concurrently on one engine each return the result the same call returns *)
(* when run alone, under every interleaving of their steps.                *)
C12_ConcurrentAsAlone ==
    \A p \in Threads :
        par[p].pc = "done" => SameOutcome(p, Alone(p))

----------------------------------------------------------------------------
\* A step of the loop that simulated one bar and ended with signal sig
BarWith(sig) ==
    /\ pc = "loop" /\ pc' = "loop"
    /\ Len(log') = Len(log) + 1
    /\ Last(log').signal = sig

\* The bar the loop is about to simulate
CurrentBar == Row(data, i)

(* C21: a bar whose signal is BUY while the run is not long computes       *)
(* quantity = floor(cash * 0.95 / close); when quantity <= 0 the cash, the *)
(* position and the ledger are unchanged, otherwise one open long trade    *)
(* with that quantity, the bar's close and timestamp is appended, the      *)
(* position becomes long and cash falls by quantity*close*(1+commission).  *)
C21_BuyWhileNotLong ==
    (BarWith("BUY") /\ position # 1) =>
        LET price == CurrentBar.close
            quantity == (capital * 95) \div (100 * 1000 * price)
        IN  IF quantity <= 0
            THEN /\ capital' = capital
                 /\ position' = position
                 /\ trades' = trades
            ELSE /\ Len(trades') = Len(trades) + 1
                 /\ SubSeq(trades', 1, Len(trades)) = trades
                 /\ Last(trades').is_open
                 /\ Last(trades').trade_type = "BUY"
                 /\ Last(trades').quantity = quantity
                 /\ Last(trades').entry_price = price
                 /\ Last(trades').entry_date = CurrentBar.ts
                 /\ Last(trades').exit_date = None
                 /\ Last(trades').exit_price = None
                 /\ Last(trades').profit_loss = None
                 /\ position' = 1
                 /\ capital' = capital - quantity * price * (1000 + CommissionPerMille)

C21_Theorem == [][C21_BuyWhileNotLong]_vars

\* The third bar of a run was a BUY that the cash could not pay for, after
\* a first bar whose BUY opened a trade
C21_Witness ==
    /\ pc = "loop"
    /\ Len(log) = 3
    /\ log[1].signal = "BUY" /\ log[1].position = 1
    /\ log[1].capital < InitialCapital * 1000
    /\ log[2].signal = "SELL" /\ log[2].position = 0
    /\ log[3].signal = "BUY" /\ log[3].position = 0
    /\ log[3].capital = log[2].capital
    /\ Len(trades) = 1

(* C22: a bar whose signal is SELL while a long trade is open closes that  *)
(* trade at the bar's close and timestamp, adds the trade's realised       *)
(* profit or loss to cash and makes the position flat; the ledger gets no  *)
(* new trade and its earlier trades are untouched.                         *)
C22_SellWhileLong ==
    (BarWith("SELL") /\ position = 1) =>
        /\ trades # <<>>
        /\ Last(trades).is_open
        /\ Len(trades') = Len(trades)
        /\ \A j \in 1..(Len(trades) - 1) : trades'[j] = trades[j]
        /\ ~Last(trades').is_open
        /\ Last(trades').exit_price = Some(CurrentBar.close)
        /\ Last(trades').exit_date = Some(CurrentBar.ts)
        /\ Last(trades').profit_loss # None
        /\ Last(trades').entry_price = Last(trades).entry_price
        /\ Last(trades').entry_date = Last(trades).entry_date
        /\ Last(trades').quantity = Last(trades).quantity
        /\ capital' = capital + Last(trades').profit_loss[1]
        /\ position' = 0

C22_Theorem == [][C22_SellWhileLong]_vars

\* A SELL on the second bar closed, at a loss, the trade the first bar opened
C22_Witness ==
    /\ pc = "loop"
    /\ Len(log) = 2
    /\ log[1].signal = "BUY" /\ log[1].position = 1
    /\ log[2].signal = "SELL" /\ log[2].position = 0
    /\ Len(trades) = 1
    /\ ~trades[1].is_open
    /\ trades[1].profit_loss[1] < 0
    /\ capital = log[1].capital + trades[1].profit_loss[1]

\* The signal sig asks for nothing in the current position
Idle(sig) ==
    \/ sig = "HOLD"
    \/ sig = "BUY" /\ position = 1
    \/ sig = "SELL" /\ position = 0

(* C23: a bar whose signal is HOLD, or BUY while already long, or SELL     *)
(* while flat leaves the position, the cash and the ledger unchanged; it   *)
(* appends one equity point and changes nothing else but the loop index    *)
(* and the accuracy counters.                                              *)
C23_IdleBar ==
    \A sig \in Signals :
        (BarWith(sig) /\ Idle(sig)) =>
            /\ position' = position
            /\ capital' = capital
            /\ trades' = trades
            /\ entry_price' = entry_price
            /\ entry_date' = entry_date
            /\ Len(equity_curve') = Len(equity_curve) + 1
            /\ SubSeq(equity_curve', 1, Len(equity_curve)) = equity_curve
            /\ i' = i + 1
            /\ UNCHANGED <<data, strategy_name, result, error, mlVars>>

C23_Theorem == [][C23_IdleBar]_vars

\* A run met a SELL while flat, then bought, then met a BUY while long
C23_Witness ==
    /\ pc = "loop"
    /\ Len(log) = 3
    /\ log[1].signal = "SELL" /\ log[1].position = 0
    /\ log[1].capital = InitialCapital * 1000
    /\ log[2].signal = "BUY" /\ log[2].position = 1
    /\ log[3].signal = "BUY" /\ log[3].position = 1
    /\ log[3].capital = log[2].capital
    /\ Len(trades) = 1
    /\ Len(equity_curve) = 3

\* The signal sig given at the current bar is counted correct
CountedCorrect(sig) ==
    \/ sig = "HOLD"
    \/ sig = "BUY" /\ Row(data, i + 1).close > CurrentBar.close
    \/ sig = "SELL" /\ Row(data, i + 1).close < CurrentBar.close

\* Every simulated bar but the final one adds 1 to total_signals, and 1 to
\* signals_correct exactly when its signal is counted correct; the final
\* bar changes neither counter
C24_CounterStep ==
    \A sig \in Signals :
        BarWith(sig) =>
            IF i < FrameLen(data) - 1
            THEN /\ total_signals' = total_signals + 1
                 /\ signals_correct' =
                        signals_correct + (IF CountedCorrect(sig) THEN 1 ELSE 0)
            ELSE /\ total_signals' = total_signals
                 /\ signals_correct' = signals_correct

C24_CorrectWithinTotal == 0 <= signals_correct /\ signals_correct <= total_signals

(* C24 as stated, its last clause: at the end of a run                     *)
(* total = len(bars) - warm_up_bars - 1.                                   *)
C24_TotalAsStated ==
    LoopReturned => total_signals = FrameLen(data) - WarmUpBars - 1

\* At the end of a run every simulated bar but the final one was counted: a
\* run over exactly warm_up_bars rows simulates no bar and counts none
C24_TotalAtEnd ==
    LoopReturned =>
        total_signals = IF FrameLen(data) > WarmUpBars
                            THEN FrameLen(data) - WarmUpBars - 1
                            ELSE 0

(* C24: total_signals grows by 1 at every simulated bar but the final one  *)
(* and signals_correct by 1 exactly when that bar's signal is HOLD, or BUY *)
(* with a higher next close, or SELL with a lower next close; hence        *)
(* correct <= total always, and at the end of a run total is               *)
(* len(bars) - warm_up_bars - 1, or 0 when no bar was simulated.           *)
C24_Theorem ==
    /\ [][C24_CounterStep]_vars
    /\ [](C24_CorrectWithinTotal /\ C24_TotalAtEnd)

\* A run of three bars has returned with two signals counted, one of them
\* a BUY before a fall
C24_Witness ==
    /\ LoopReturned
    /\ Len(log) = 3
    /\ total_signals = 2
    /\ signals_correct = 1
    /\ \E k \in 1..2 : log[k].signal = "BUY" /\ BarOf(k + 1).close < BarOf(k).close

(* C27: at the end of every bar the position is long exactly when the      *)
(* ledger is non-empty and its last trade is open; every trade before the  *)
(* last is closed, so at most one trade is open at any time.               *)
C27_LongIffLastOpen ==
    pc = "loop" =>
        /\ position = 1 <=> (trades # <<>> /\ Last(trades).is_open)
        /\ \A j \in 1..(Len(trades) - 1) : ~trades[j].is_open
        /\ Cardinality({j \in DOMAIN trades : trades[j].is_open}) <= 1

\* After three bars the ledger holds a closed trade and then an open one
C27_Witness ==
    /\ pc = "loop"
    /\ Len(log) = 3
    /\ Len(trades) = 2
    /\ ~trades[1].is_open
    /\ trades[2].is_open
    /\ position = 1

\* Sum of the realised profit or loss of the closed trades among the first
\* n of the ledger
RECURSIVE RealisedPnl(_)
RealisedPnl(n) ==
    IF n = 0 THEN 0
    ELSE RealisedPnl(n - 1)
         + (IF trades[n].is_open THEN 0 ELSE trades[n].profit_loss[1])

(* C28: cash is conserved across round trips: at the end of every bar at   *)
(* which the position is flat, cash equals initial_capital plus the sum of *)
(* the realised profit or loss of all trades closed so far.                *)
C28_CashConserved ==
    (pc = "loop" /\ position = 0) =>
        capital = InitialCapital * 1000 + RealisedPnl(Len(trades))

\* The equity recorded before bar k of the run: the initial capital before
\* the first
EquityBefore(k) == IF k = 1 THEN InitialCapital * 1000 ELSE equity_curve[k - 1]

\* The commission charged on the entry of a trade, in thousandths
EntryCommission(t) == t.quantity * t.entry_price * CommissionPerMille

(* C29: with positive prices and commission 0.001 the equity recorded at   *)
(* every bar is >= 0, so max_drawdown >= -1, and a bar that opens a        *)
(* position records an equity lower than the one before it by no more than *)
(* the entry commission.                                                   *)
C29_EquityBounded ==
    /\ pc = "loop" =>
          /\ \A k \in DOMAIN equity_curve : equity_curve[k] >= 0
          /\ (log # <<>> /\ Len(log) \in Opened) =>
                Last(equity_curve) >=
                    EquityBefore(Len(log)) - EntryCommission(Last(trades))
    /\ LoopReturned =>
          FracLeq([num |-> -1, den |-> 1], result[1].max_drawdown)

(* C30: the ledger is chronological and non-overlapping: its trades are in *)
(* order of entry_date, and of two consecutive trades the earlier one is   *)
(* closed with an exit_date strictly before the entry_date of the later.   *)
C30_LedgerChronological ==
    InRun =>
        \A j \in 1..(Len(trades) - 1) :
            /\ trades[j].entry_date <= trades[j + 1].entry_date
            /\ ~trades[j].is_open
            /\ trades[j].exit_date[1] < trades[j + 1].entry_date

----------------------------------------------------------------------------
(* MLRandomForestStrategy on its own: train_model and, on one window,       *)
(* generate_signal followed by get_signal_strength.                         *)

\* A frame of LongestHorizon quiet rows and n oversold rows at close 90, the
\* second of them at close `second`
LongTail(n, second) ==
    [k \in 1..n |-> [kind |-> "oversold", close |-> IF k = 2 THEN second ELSE 90]]

\* The frames train_model is given: enough rows with both targets, enough
\* rows with one target, enough rows without the Volume column, one prepared
\* row, and no prepared row
TrainFrames ==
    {[lead |-> LongestHorizon, tail |-> LongTail(MinTrainRows + 1, c),
      order |-> "sorted", has_volume |-> TRUE] : c \in TailCloses}
    \cup {[lead |-> LongestHorizon, tail |-> LongTail(MinTrainRows + 1, 110),
           order |-> "sorted", has_volume |-> FALSE],
          [lead |-> LongestHorizon, tail |-> LongTail(2, 90),
           order |-> "sorted", has_volume |-> TRUE],
          [lead |-> WarmUpBars, tail |-> <<>>, order |-> "sorted",
           has_volume |-> TRUE]}

\* The windows the classifier is asked about: one prepared row whose RSI
\* reading is 20 or 80, the same without Volume, and no prepared row
AskWindows ==
    {[lead |-> LongestHorizon,
      tail |-> <<[kind |-> k, close |-> 90], [kind |-> "oversold", close |-> 90]>>,
      order |-> "sorted", has_volume |-> TRUE] : k \in Kinds \ {"quiet"}}
    \cup {[lead |-> LongestHorizon, tail |-> LongTail(2, 90),
           order |-> "sorted", has_volume |-> FALSE],
          [lead |-> WarmUpBars, tail |-> <<>>, order |-> "sorted",
           has_volume |-> TRUE]}

\* The classifier has been asked about a window since it was constructed
Asked == fn.op = "ask" \/ (fn.op = "train" /\ fn.asked)

\* strategy.train_model(data)
TrainOn(f, d) ==
    /\ FrameLen(d) >= 0
    /\ Fitted(TrainModel(d, is_trained, model))
    /\ predictors' = PredictorList
    /\ fn' = [op |-> "train", frame |-> f, asked |-> Asked]
    /\ UNCHANGED forest

\* To bound the search, the frames long enough for a fit are given only
\* before the first question; the others at any time
MLTrain ==
    /\ pc = "idle"
    /\ fn.op \in {"none", "train", "ask"}
    /\ \E f \in TrainFrames :
          /\ Asked => Len(f.tail) < MinTrainRows
          /\ TrainOn(f, Frame(f))
    /\ UNCHANGED <<pc, args, runVars, result, error, log, pre, closes, ref, par>>

\* strategy.generate_signal(data) and strategy.get_signal_strength(data) on
\* the same window
AskOn(f, w) ==
    /\ FrameLen(w) >= 0
    /\ \E p \in Answers("ml_rf", w, is_trained, model, forest) :
          /\ forest' = Remember("ml_rf", w, is_trained, model, forest, p)
          /\ fn' = [op |-> "ask", frame |-> f, proba1 |-> p,
                    signal |-> ML_generate_signal(w, is_trained, model, p),
                    strength |-> ML_get_signal_strength(w, is_trained, model, p)]
    /\ predictors' = PredictorsAfter("ml_rf", is_trained, predictors)
    /\ UNCHANGED <<is_trained, model>>

MLAsk ==
    /\ pc = "idle"
    /\ fn.op \in {"none", "train", "ask"}
    /\ \E f \in AskWindows : AskOn(f, Frame(f))
    /\ UNCHANGED <<pc, args, runVars, result, error, log, pre, closes, ref, par>>

NextML == MLTrain \/ MLAsk

SpecML == Init /\ [][NextML]_vars

----------------------------------------------------------------------------
\* The last call was train_model on a frame that gives fewer than 100
\* prepared rows or on which the fit raises
TrainCannotFit ==
    /\ fn.op = "train"
    /\ \/ FrameLen(Frame(fn.frame)) - 1 - LongestHorizon < 100
       \/ ~fn.frame.has_volume

\* While untrained the classifier answers HOLD with strength 0.5
C25_UntrainedHolds ==
    (fn.op = "ask" /\ ~is_trained) =>
        /\ fn.signal = "HOLD"
        /\ fn.strength = StrengthHalf

\* Untrained becomes trained only by a train_model call that can fit, a call
\* that cannot fit leaves the flag as it was, and trained stays trained
C25_TrainedByFitOnly ==
    /\ (~is_trained /\ is_trained') => (fn'.op = "train" /\ ~TrainCannotFit')
    /\ TrainCannotFit' => is_trained' = is_trained
    /\ is_trained => is_trained'

(* C25: the classifier starts untrained; while untrained generate_signal   *)
(* returns HOLD and get_signal_strength 0.5 for every window; only a       *)
(* train_model call that succeeds makes it trained (fewer than 100         *)
(* prepared rows, or a fit that fails, leaves it untrained); nothing makes *)
(* a trained classifier untrained.                                         *)
C25_Theorem ==
    /\ ~is_trained
    /\ []C25_UntrainedHolds
    /\ [][C25_TrainedByFitOnly]_vars

\* A trained classifier was asked, then given a frame it cannot fit, and is
\* still trained
C25_Witness ==
    /\ is_trained
    /\ model # <<>>
    /\ fn.op = "train"
    /\ fn.asked
    /\ TrainCannotFit

\* The last call asked a trained classifier about a window for which
\* predict_proba gave a class-1 probability
AskedForest ==
    /\ fn.op = "ask"
    /\ is_trained
    /\ ConsultsForest(Frame(fn.frame), is_trained, model)

\* The RSI reading of the window's last prepared row
AskedRsi == Frame(fn.frame).rows[Len(Frame(fn.frame).rows) - 1].rsi

\* The class-1 probability, times 1.5 and capped at 1 when the RSI reading
\* is below 30, per mille
BoostedProbability ==
    IF AskedRsi < RsiOversold
    THEN (IF 3 * fn.proba1 >= 2 * 1000 THEN 1000 ELSE (3 * fn.proba1) \div 2)
    ELSE fn.proba1

(* C26: for a trained classifier, with p the class-1 probability           *)
(* multiplied by 1.5 and capped at 1.0 when the RSI reading is below 30,   *)
(* generate_signal returns BUY if p >= 0.6, SELL if p <= 0.4 and HOLD      *)
(* otherwise, and get_signal_strength on the same window returns that p.   *)
C26_SignalAndStrength ==
    AskedForest =>
        /\ fn.signal = IF BoostedProbability >= 600 THEN "BUY"
                       ELSE IF BoostedProbability <= 400 THEN "SELL"
                       ELSE "HOLD"
        /\ fn.strength = 3 * BoostedProbability

====
